---- MODULE Spec2Model ----
(***************************************************************************)
(* A model of the mini compiler: the parser pulling tokens from the lexer  *)
(* (src/parser.cpp over src/lexer.cpp), the symbol table                   *)
(* (src/symboltable.cpp), the two-pass type checker (src/typechecker.cpp)  *)
(* and the driver that chains the phases (src/main.cpp).                   *)
(*                                                                         *)
(* C++ exceptions are modelled by results: every operator that models a    *)
(* function that may throw returns a record whose field ok is FALSE when   *)
(* the function left by an exception, together with the state the object   *)
(* was left in at the throw.                                               *)
(***************************************************************************)
EXTENDS Integers, Sequences, FiniteSets, TLC

VARIABLES
    prog,                       \* the source text, as the list of its top-level pieces
    src,                        \* Lexer::source, as the list of lexical items it holds
    position,                   \* Lexer::position: the next item of src to scan
    currentToken,               \* Parser::currentToken
    ast,                        \* main's `ast` / parse()'s `statements`
    stderr,                     \* what was written to std::cerr, in order
    ran,                        \* the phases main has invoked so far, in order
    lexErrors,                  \* how many times getNextToken has thrown
    pc,                         \* where main (or the symbol-table client) stands
    exitCode,                   \* main's return value, -1 while it runs
    scopes,                     \* SymbolTable::scopes
    currentFunctionName,        \* TypeChecker::currentFunctionName
    currentFunctionReturnType,  \* TypeChecker::currentFunctionReturnType
    inFunctionBody,             \* TypeChecker::inFunctionBody
    errors,                     \* check()'s local `errors`
    idx,                        \* the loop index of check()'s current pass
    nest,                       \* enter_scope calls minus exit_scope calls so far
    wellNested,                 \* no prefix of the calls had more exits than enters
    defines,                    \* per live scope, the define calls made in it, in order
    input,                      \* Lexer::source, as the list of its characters
    lexer,                      \* Lexer::position and Lexer::line
    token,                      \* what the last call of getNextToken returned or threw
    literal,                    \* the Literal node parsePrimary built from token
    sample,                     \* an assignment to parse: its target, operator and value
    parsed,                     \* the ASTs the parser built for the forms of sample
    instructions,               \* CodeGenerator::instructions
    tempVarCounter,             \* CodeGenerator::tempVarCounter
    labelCounter,               \* CodeGenerator::labelCounter
    listing                     \* the instruction list handed to optimize() on its own

vars == <<prog, src, position, currentToken, ast, stderr, ran, lexErrors, pc,
          exitCode, scopes, currentFunctionName, currentFunctionReturnType,
          inFunctionBody, errors, idx, nest, wellNested, defines, input, lexer,
          token, literal, sample, parsed, instructions, tempVarCounter,
          labelCounter, listing>>

lexerVars == <<input, lexer, token, literal>>

sampleVars == <<sample, parsed>>

codegenVars == <<instructions, tempVarCounter, labelCounter>>

\* The variables of the components that are run on their own.
aloneVars == <<defines, lexerVars, sampleVars, listing>>

(***************************************************************************)
(* Bounds of the model.                                                    *)
(***************************************************************************)
MaxStmts == 2

MaxDepth == 3

MaxDefines == 3

MaxInput == 4

MaxExpr == 3

\* The longest instruction list the peephole pass is run on alone.
MaxInstr == 5

\* The longest token stream the parser is run on alone, and the most opening
\* parentheses in it.
MaxTokens == 4

MaxParens == 1

(***************************************************************************)
(* Tokens (src/token.hpp).                                                 *)
(***************************************************************************)
Tok(type, lexeme) == [type |-> type, lexeme |-> lexeme]

DefaultToken == Tok("END_OF_FILE", "")

\* The absent child of a node, a null unique_ptr.
Nil == [k |-> "nullptr"]

isNil(node) == node.k = "nullptr"

Range(s) == {s[i] : i \in 1..Len(s)}

(***************************************************************************)
(* Results of functions that may throw std::runtime_error.                 *)
(*   p    the parser (and the lexer under it) after the call               *)
(*   ok   FALSE iff the call left by an exception                          *)
(*   node the value returned                                               *)
(*   msg  what() of the exception                                          *)
(***************************************************************************)
Ok(p, node) == [p |-> p, ok |-> TRUE, node |-> node, msg |-> ""]

Throw(p, msg) == [p |-> p, ok |-> FALSE, node |-> Nil, msg |-> msg]

(***************************************************************************)
(* The lexer, character by character (src/lexer.cpp).  A lexer is the      *)
(* record of its source (a sequence of characters), its position (the      *)
(* number of characters consumed) and its line.  NUL is the '\0' that      *)
(* peek() returns at and past the end of the source.                       *)
(***************************************************************************)
NUL == "NUL"

Letters ==
    {"a", "b", "c", "d", "e", "f", "g", "h", "i", "j", "k", "l", "m", "n", "o",
     "p", "q", "r", "s", "t", "u", "v", "w", "x", "y", "z", "A", "B", "C", "D",
     "E", "F", "G", "H", "I", "J", "K", "L", "M", "N", "O", "P", "Q", "R", "S",
     "T", "U", "V", "W", "X", "Y", "Z"}

Digits == {"0", "1", "2", "3", "4", "5", "6", "7", "8", "9"}

Spaces == {" ", "\t", "\n", "\r"}

Lexer(source, pos, line) == [source |-> source, position |-> pos, line |-> line]

Token(type, lexeme, line) == [type |-> type, lexeme |-> lexeme, line |-> line]

\* A call of getNextToken that returned a token, and one that threw.
Returned(l, type, lexeme) ==
    [l |-> l, ok |-> TRUE, tok |-> Token(type, lexeme, l.line), msg |-> ""]

Raised(l, msg) ==
    [l |-> l, ok |-> FALSE, tok |-> Token("NONE", <<>>, l.line), msg |-> msg]

Keywords ==
    { <<<<"i", "n", "t">>, "INT">>,
      <<<<"f", "l", "o", "a", "t">>, "FLOAT">>,
      <<<<"c", "h", "a", "r">>, "CHAR">>,
      <<<<"v", "o", "i", "d">>, "VOID">>,
      <<<<"b", "o", "o", "l">>, "BOOL">>,
      <<<<"s", "t", "r", "i", "n", "g">>, "STRING_LITERAL">>,
      <<<<"i", "f">>, "IF">>,
      <<<<"e", "l", "s", "e">>, "ELSE">>,
      <<<<"w", "h", "i", "l", "e">>, "WHILE">>,
      <<<<"f", "o", "r">>, "FOR">>,
      <<<<"r", "e", "t", "u", "r", "n">>, "RETURN">>,
      <<<<"t", "r", "u", "e">>, "TRUE">>,
      <<<<"f", "a", "l", "s", "e">>, "FALSE">>,
      <<<<"c", "o", "u", "t">>, "COUT">>,
      <<<<"c", "i", "n">>, "CIN">>,
      <<<<"e", "n", "d", "l">>, "ENDL">>,
      <<<<"u", "s", "i", "n", "g">>, "USING">>,
      <<<<"n", "a", "m", "e", "s", "p", "a", "c", "e">>, "NAMESPACE">>,
      <<<<"s", "t", "d">>, "STD">>,
      <<<<"i", "n", "c", "l", "u", "d", "e">>, "INCLUDE">> }

peek(l) ==
    IF l.position >= Len(l.source) THEN NUL ELSE l.source[l.position + 1]

peekNext(l) ==
    IF l.position + 1 >= Len(l.source) THEN NUL ELSE l.source[l.position + 2]

\* advance(): the character it returns is what peek() gave before the call.
lexerAdvance(l) ==
    [l EXCEPT !.position = @ + 1,
              !.line = IF peek(l) = "\n" THEN @ + 1 ELSE @]

RECURSIVE skipWhitespace(_)
skipWhitespace(l) ==
    IF peek(l) \in Spaces THEN skipWhitespace(lexerAdvance(l)) ELSE l

RECURSIVE skipLine(_)
skipLine(l) ==
    IF peek(l) # "\n" /\ peek(l) # NUL THEN skipLine(lexerAdvance(l)) ELSE l

\* while (position + 1 < source.length()) { if (at "*/") { advance(); advance();
\* break; } advance(); }
RECURSIVE skipToCommentEnd(_)
skipToCommentEnd(l) ==
    IF l.position + 1 < Len(l.source)
    THEN IF peek(l) = "*" /\ peekNext(l) = "/"
         THEN lexerAdvance(lexerAdvance(l))
         ELSE skipToCommentEnd(lexerAdvance(l))
    ELSE l

skipComment(l) ==
    IF peek(l) = "/" /\ l.position + 1 < Len(l.source)
    THEN IF peekNext(l) = "/" THEN skipLine(l)
         ELSE IF peekNext(l) = "*"
         THEN skipToCommentEnd(lexerAdvance(lexerAdvance(l)))
         ELSE l
    ELSE l

keywordOr(lexeme, other) ==
    IF \E kw \in Keywords : kw[1] = lexeme
    THEN (CHOOSE kw \in Keywords : kw[1] = lexeme)[2]
    ELSE other

RECURSIVE identifier(_, _)
identifier(l, lexeme) ==
    IF peek(l) \in Letters \cup Digits \cup {"_"}
    THEN identifier(lexerAdvance(l), Append(lexeme, peek(l)))
    ELSE Returned(l, keywordOr(lexeme, "IDENTIFIER"), lexeme)

\* A number() that returns without consuming a digit.
numberStuck(l, lexeme, isFloat) == Returned(l, "INTEGER_LITERAL", lexeme)

RECURSIVE number(_, _, _)
number(l, lexeme, isFloat) ==
    IF peek(l) \in Digits \cup {"."} /\ ~(peek(l) = "." /\ isFloat)
    THEN number(lexerAdvance(l), Append(lexeme, peek(l)), isFloat \/ peek(l) = ".")
    ELSE Returned(l, IF isFloat THEN "FLOAT_LITERAL" ELSE "INTEGER_LITERAL", lexeme)

\* The character an escape sequence of Lexer::string stands for.
stringEscape(c) ==
    CASE c = "n" -> "\n"
      [] c = "t" -> "\t"
      [] c = "r" -> "\r"
      [] OTHER -> c

\* Lexer::string, entered with the opening quote consumed.
RECURSIVE string(_, _)
string(l, lexeme) ==
    IF peek(l) # "\"" /\ peek(l) # NUL
    THEN IF peek(l) = "\\"
         THEN string(lexerAdvance(lexerAdvance(l)),
                     Append(lexeme, stringEscape(peek(lexerAdvance(l)))))
         ELSE string(lexerAdvance(l), Append(lexeme, peek(l)))
    ELSE IF peek(l) = "\"" THEN Returned(lexerAdvance(l), "STRING_LITERAL", lexeme)
    ELSE Raised(l, "Unterminated string")

closeCharacter(l, value) ==
    IF peek(l) = "'" THEN Returned(lexerAdvance(l), "CHAR_LITERAL", value)
    ELSE Raised(l, "Invalid character literal")

\* Lexer::character, entered with the opening quote consumed.
character(l) ==
    IF peek(l) = "\\"
    THEN closeCharacter(lexerAdvance(lexerAdvance(l)),
                        <<stringEscape(peek(lexerAdvance(l)))>>)
    ELSE closeCharacter(lexerAdvance(l), <<peek(l)>>)

\* while (peek() != terminator && peek() != '\0') header += advance();
\* if (peek() == terminator) advance();
RECURSIVE includeHeader(_, _, _)
includeHeader(l, terminator, header) ==
    IF peek(l) # terminator /\ peek(l) # NUL
    THEN includeHeader(lexerAdvance(l), terminator, Append(header, peek(l)))
    ELSE Returned(IF peek(l) = terminator THEN lexerAdvance(l) ELSE l,
                  "INCLUDE", header)

\* The directive name has been read; l stands behind it.
directiveNamed(l, lexeme) ==
    IF lexeme = <<"i", "n", "c", "l", "u", "d", "e">>
    THEN IF peek(skipWhitespace(l)) \in {"<", "\""}
         THEN includeHeader(lexerAdvance(skipWhitespace(l)),
                            IF peek(skipWhitespace(l)) = "<" THEN ">" ELSE "\"",
                            <<>>)
         ELSE Returned(skipWhitespace(l), "HASH", lexeme)
    ELSE Returned(l, "HASH", lexeme)

RECURSIVE directiveName(_, _)
directiveName(l, lexeme) ==
    IF peek(l) \in Letters
    THEN directiveName(lexerAdvance(l), Append(lexeme, peek(l)))
    ELSE directiveNamed(l, lexeme)

preprocessorDirective(l) == directiveName(skipWhitespace(lexerAdvance(l)), <<>>)

\* if (match(second)) return Token(type, ...): the token of two characters.
orElse(l, first, second, type, otherwise) ==
    IF peek(l) = second
    THEN Returned(lexerAdvance(l), type, <<first, second>>)
    ELSE otherwise

\* The switch of getNextToken on the character c, which has been consumed.
punctuation(c, l) ==
    CASE c = "+" -> orElse(l, c, "+", "INCREMENT",
                    orElse(l, c, "=", "PLUS_EQUAL", Returned(l, "PLUS", <<c>>)))
      [] c = "-" -> orElse(l, c, "-", "DECREMENT",
                    orElse(l, c, "=", "MINUS_EQUAL",
                    orElse(l, c, ">", "ARROW", Returned(l, "MINUS", <<c>>))))
      [] c = "*" -> orElse(l, c, "=", "MULTIPLY_EQUAL", Returned(l, "MULTIPLY", <<c>>))
      [] c = "/" -> orElse(l, c, "=", "DIVIDE_EQUAL", Returned(l, "SLASH", <<c>>))
      [] c = "(" -> Returned(l, "LPAREN", <<c>>)
      [] c = ")" -> Returned(l, "RPAREN", <<c>>)
      [] c = "{" -> Returned(l, "LBRACE", <<c>>)
      [] c = "}" -> Returned(l, "RBRACE", <<c>>)
      [] c = "[" -> Returned(l, "LBRACKET", <<c>>)
      [] c = "]" -> Returned(l, "RBRACKET", <<c>>)
      [] c = ";" -> Returned(l, "SEMICOLON", <<c>>)
      [] c = "," -> Returned(l, "COMMA", <<c>>)
      [] c = "." -> Returned(l, "DOT", <<c>>)
      [] c = "&" -> orElse(l, c, "&", "AND", Returned(l, "AMPERSAND", <<c>>))
      [] c = "|" -> orElse(l, c, "|", "OR", Returned(l, "PIPE", <<c>>))
      [] c = "<" -> orElse(l, c, "=", "LESS_EQUAL",
                    orElse(l, c, "<", "LEFT_SHIFT", Returned(l, "LESS", <<c>>)))
      [] c = ">" -> orElse(l, c, "=", "GREATER_EQUAL",
                    orElse(l, c, ">", "RIGHT_SHIFT", Returned(l, "GREATER", <<c>>)))
      [] c = "=" -> orElse(l, c, "=", "EQUAL_EQUAL", Returned(l, "EQUAL", <<c>>))
      [] c = "!" -> orElse(l, c, "=", "NOT_EQUAL", Returned(l, "NOT", <<c>>))
      [] c = "\"" -> string(l, <<>>)
      [] c = "'" -> character(l)
      [] OTHER -> Raised(l, "Unexpected character")

RECURSIVE LexerGetNextToken(_), getNextTokenAt(_)

\* getNextToken behind its skipWhitespace().
getNextTokenAt(l) ==
    IF l.position >= Len(l.source) THEN Returned(l, "END_OF_FILE", <<>>)
    ELSE IF peek(l) = "/" /\ l.position + 1 < Len(l.source)
            /\ peekNext(l) \in {"/", "*"}
    THEN LexerGetNextToken(skipComment(l))
    ELSE IF peek(l) = "#" THEN preprocessorDirective(l)
    ELSE IF peek(l) \in Letters \cup {"_"} THEN identifier(l, <<>>)
    ELSE IF peek(l) \in Digits THEN number(l, <<>>, FALSE)
    ELSE punctuation(peek(l), lexerAdvance(l))

\* Lexer::getNextToken on the characters of the source.
LexerGetNextToken(l) == getNextTokenAt(skipWhitespace(l))

(***************************************************************************)
(* Lexer::getNextToken, seen from the parser: src holds, in order, what    *)
(* the successive calls produce.  An item is a token, or one of            *)
(*   BADCHAR       a character no rule accepts: the call consumes it and   *)
(*                 throws "Unexpected character"                           *)
(*   UNTERMINATED  a string literal with no closing quote: the call        *)
(*                 consumes the rest of the source and throws              *)
(* Past the last item every call returns END_OF_FILE.                      *)
(***************************************************************************)
LexicalMessages == {"Unexpected character", "Unterminated string"}

getNextToken(source, pos) ==
    IF pos > Len(source)
    THEN [ok |-> TRUE, tok |-> Tok("END_OF_FILE", ""), pos |-> pos, msg |-> ""]
    ELSE IF source[pos].type = "BADCHAR"
    THEN [ok |-> FALSE, tok |-> DefaultToken, pos |-> pos + 1,
          msg |-> "Unexpected character"]
    ELSE IF source[pos].type = "UNTERMINATED"
    THEN [ok |-> FALSE, tok |-> DefaultToken, pos |-> Len(source) + 1,
          msg |-> "Unterminated string"]
    ELSE [ok |-> TRUE, tok |-> source[pos], pos |-> pos + 1, msg |-> ""]

(***************************************************************************)
(* The parser's state: source and pos are the lexer's source and position, *)
(* cur is currentToken, lexerr counts the exceptions the lexer has thrown. *)
(***************************************************************************)
Parser(source, pos, cur, lexerr) ==
    [source |-> source, pos |-> pos, cur |-> cur, lexerr |-> lexerr]

\* The call that follows a call: it runs, on the state the call before left,
\* when that call returned, and an exception passes it by.
after(r, F(_)) == IF r.ok THEN F(r.p) ELSE r

\* The same, for a following call that uses what the call before returned.
afterNode(r, F(_, _)) == IF r.ok THEN F(r.p, r.node) ELSE r

\* currentToken = <the token>: nothing is assigned when the lexer throws.
assignToken(p, g) ==
    IF g.ok
    THEN Ok([p EXCEPT !.cur = g.tok, !.pos = g.pos], Nil)
    ELSE Throw([p EXCEPT !.pos = g.pos, !.lexerr = @ + 1], g.msg)

advance(p) == assignToken(p, getNextToken(p.source, p.pos))

check(p, type) == p.cur.type = type

checkAny(p, types) == p.cur.type \in types

SyncKeywords == {"INT", "FLOAT", "CHAR", "VOID", "IF", "WHILE", "FOR", "RETURN"}

RECURSIVE synchronizeLoop(_)
synchronizeLoop(p) ==
    IF check(p, "END_OF_FILE") THEN Ok(p, Nil)
    ELSE IF checkAny(p, {"SEMICOLON", "RBRACE"}) THEN advance(p)
    ELSE IF checkAny(p, SyncKeywords) THEN Ok(p, Nil)
    ELSE after(advance(p), LAMBDA q : synchronizeLoop(q))

\* A synchronize() without the advance() it starts with.
synchronizeInPlace(p) == synchronizeLoop(p)

synchronize(p) == after(advance(p), LAMBDA q : synchronizeLoop(q))

\* match(type): the caller reads the boolean result as check(p, type).
match(p, type) == IF check(p, type) THEN advance(p) ELSE Ok(p, Nil)

consume(p, type, message) ==
    IF check(p, type) THEN advance(p) ELSE Throw(p, message)

\* if (!check(IDENTIFIER)) throw std::runtime_error(message); ... advance();
consumeIdentifier(p, message) ==
    IF ~check(p, "IDENTIFIER") THEN Throw(p, message) ELSE advance(p)

\* catch (const std::runtime_error&) { synchronize(); throw; }
\* An exception thrown by synchronize() itself replaces the one in flight.
catchSynchronizeRethrow(r) ==
    IF r.ok THEN r ELSE after(synchronize(r.p), LAMBDA q : Throw(q, r.msg))

(***************************************************************************)
(* The AST (src/ast.h).  A node is a record whose field k names its class. *)
(***************************************************************************)
LiteralExpression(value, type) ==
    [k |-> "Literal", value |-> value, literalType |-> type]

IdentifierExpression(name) == [k |-> "Identifier", name |-> name]

UnaryExpression(op, operand) == [k |-> "Unary", op |-> op, operand |-> operand]

BinaryExpression(left, op, right) ==
    [k |-> "Binary", left |-> left, op |-> op, right |-> right]

LogicalExpression(left, op, right) ==
    [k |-> "Logical", left |-> left, op |-> op, right |-> right]

AssignExpression(name, op, value) ==
    [k |-> "Assign", name |-> name, op |-> op, value |-> value]

CallExpression(callee, arguments) ==
    [k |-> "Call", callee |-> callee, arguments |-> arguments]

ExpressionStatement(expression) ==
    [k |-> "ExpressionStatement", expression |-> expression]

BlockStatement(stmts) == [k |-> "Block", statements |-> stmts]

IfStatement(condition, thenBranch, elseBranch) ==
    [k |-> "If", condition |-> condition, thenBranch |-> thenBranch,
     elseBranch |-> elseBranch]

WhileStatement(condition, body) ==
    [k |-> "While", condition |-> condition, body |-> body]

ForStatement(initializer, condition, increment, body) ==
    [k |-> "For", initializer |-> initializer, condition |-> condition,
     increment |-> increment, body |-> body]

ReturnStatement(value) == [k |-> "Return", value |-> value]

VariableDeclaration(type, isPointer, name, initializer) ==
    [k |-> "VariableDeclaration", type |-> type, isPointer |-> isPointer,
     name |-> name, initializer |-> initializer]

FunctionDeclaration(name, returnType, parameters, body) ==
    [k |-> "FunctionDeclaration", name |-> name, returnType |-> returnType,
     parameters |-> parameters, body |-> body]

(***************************************************************************)
(* Literal payloads as parsePrimary decodes them.  The lexeme of a         *)
(* CHAR_LITERAL or STRING_LITERAL token is a sequence of characters.       *)
(***************************************************************************)
unescape(c) ==
    CASE c = "n" -> "\n"
      [] c = "t" -> "\t"
      [] OTHER -> c

charLiteralValue(lexeme) ==
    IF Len(lexeme) >= 2
    THEN LET value == SubSeq(lexeme, 2, Len(lexeme) - 1)
         IN  IF Len(value) > 1 /\ value[1] = "\\"
             THEN IF value[2] \in {"n", "t", "\\", "'", "\""}
                  THEN <<unescape(value[2])>>
                  ELSE SubSeq(value, 2, Len(value))
             ELSE value
    ELSE lexeme

RECURSIVE processEscapes(_, _)
processEscapes(value, i) ==
    IF i > Len(value) THEN <<>>
    ELSE IF value[i] = "\\" /\ i + 1 <= Len(value)
    THEN <<unescape(value[i + 1])>> \o processEscapes(value, i + 2)
    ELSE <<value[i]>> \o processEscapes(value, i + 1)

stringLiteralValue(lexeme) ==
    IF Len(lexeme) >= 2
    THEN processEscapes(SubSeq(lexeme, 2, Len(lexeme) - 1), 1)
    ELSE lexeme

(***************************************************************************)
(* Expressions (Parser::parseExpression .. Parser::parsePrimary).          *)
(***************************************************************************)
AssignmentOps ==
    {"EQUAL", "PLUS_EQUAL", "MINUS_EQUAL", "MULTIPLY_EQUAL", "DIVIDE_EQUAL"}

UnaryOps ==
    {"NOT", "MULTIPLY", "AMPERSAND", "INCREMENT", "DECREMENT", "PLUS", "MINUS"}

\* A mapping that takes every compound assignment for +=.
compoundOperatorPlus(op) == "PLUS"

compoundOperator(op) ==
    IF op = "PLUS_EQUAL" THEN "PLUS"
    ELSE IF op = "MINUS_EQUAL" THEN "MINUS"
    ELSE IF op = "MULTIPLY_EQUAL" THEN "MULTIPLY"
    ELSE "SLASH"

\* The operators each left-associative level loops on.
levelOperators(level) ==
    CASE level = "LogicalOr" -> {"OR"}
      [] level = "LogicalAnd" -> {"AND"}
      [] level = "Equality" -> {"EQUAL_EQUAL", "NOT_EQUAL"}
      [] level = "Comparison" ->
            {"LESS", "LESS_EQUAL", "GREATER", "GREATER_EQUAL"}
      [] level = "Term" -> {"PLUS", "MINUS"}
      [] level = "Factor" -> {"MULTIPLY", "SLASH"}

levelNode(level, left, op, right) ==
    IF level \in {"LogicalOr", "LogicalAnd"}
    THEN LogicalExpression(left, op, right)
    ELSE BinaryExpression(left, op, right)

RECURSIVE parseExpression(_), parseAssignment(_), parseLogicalOr(_),
          parseLogicalAnd(_), parseEquality(_), parseComparison(_),
          parseTerm(_), parseFactor(_), parsePrimary(_), parseOperand(_, _),
          leftAssociative(_, _), parseArguments(_, _), skipArgument(_),
          parseStreamChain(_, _), streamRest(_, _), parseArgument(_, _),
          catchSkipArgument(_, _), parseCall(_, _)

\* The next tighter level, which parses the right operands of `level`.
parseOperand(level, p) ==
    CASE level = "LogicalOr" -> parseLogicalAnd(p)
      [] level = "LogicalAnd" -> parseEquality(p)
      [] level = "Equality" -> parseComparison(p)
      [] level = "Comparison" -> parseTerm(p)
      [] level = "Term" -> parseFactor(p)
      [] level = "Factor" -> parsePrimary(p)

\* while (check(op) ...) { op; advance(); right = operand(); expr = node; }
leftAssociative(level, r) ==
    afterNode(r, LAMBDA p, left :
        IF checkAny(p, levelOperators(level))
        THEN after(advance(p), LAMBDA p1 :
             afterNode(parseOperand(level, p1), LAMBDA p2, right :
             leftAssociative(level,
                 Ok(p2, levelNode(level, left, p.cur.type, right)))))
        ELSE Ok(p, left))

parseExpression(p) == catchSynchronizeRethrow(parseAssignment(p))

parseAssignment(p) ==
    catchSynchronizeRethrow(
        afterNode(parseLogicalOr(p), LAMBDA p1, expr :
            IF checkAny(p1, AssignmentOps)
            THEN after(advance(p1), LAMBDA p2 :
                 IF expr.k = "Identifier"
                 THEN afterNode(parseAssignment(p2), LAMBDA p3, right :
                      IF p1.cur.type # "EQUAL"
                      THEN Ok(p3, AssignExpression(expr.name, "EQUAL",
                                      BinaryExpression(
                                          IdentifierExpression(expr.name),
                                          compoundOperator(p1.cur.type), right)))
                      ELSE Ok(p3, AssignExpression(expr.name, p1.cur.type, right)))
                 ELSE Throw(p2, "Invalid assignment target."))
            ELSE IF checkAny(p1, {"INCREMENT", "DECREMENT"})
            THEN IF expr.k = "Identifier"
                 THEN after(advance(p1), LAMBDA p2 :
                      Ok(p2, UnaryExpression(p1.cur.type,
                                             IdentifierExpression(expr.name))))
                 ELSE Throw(p1, "Invalid increment/decrement target.")
            ELSE Ok(p1, expr)))

\* The six binary levels have one shape: try { expr = operand(); while (an
\* operator of the level) { ... } return expr; } catch { synchronize(); throw; }
parseLogicalOr(p) ==
    catchSynchronizeRethrow(leftAssociative("LogicalOr", parseOperand("LogicalOr", p)))

parseLogicalAnd(p) ==
    catchSynchronizeRethrow(leftAssociative("LogicalAnd", parseOperand("LogicalAnd", p)))

parseEquality(p) ==
    catchSynchronizeRethrow(leftAssociative("Equality", parseOperand("Equality", p)))

parseComparison(p) ==
    catchSynchronizeRethrow(leftAssociative("Comparison", parseOperand("Comparison", p)))

parseTerm(p) ==
    catchSynchronizeRethrow(leftAssociative("Term", parseOperand("Term", p)))

parseFactor(p) ==
    catchSynchronizeRethrow(leftAssociative("Factor", parseOperand("Factor", p)))

\* The catch of the argument loop: skip to the next ',' or ')'.
skipArgument(p) ==
    IF ~check(p, "RPAREN") /\ ~check(p, "COMMA") /\ ~check(p, "END_OF_FILE")
    THEN after(advance(p), LAMBDA q : skipArgument(q))
    ELSE match(p, "COMMA")

\* The try of one iteration of the argument loop, and its catch.
parseArgument(p, arguments) ==
    IF check(p, "COMMA")
    THEN after(advance(p), LAMBDA q : Ok(q, arguments))
    ELSE afterNode(parseExpression(p), LAMBDA q, arg :
             Ok(q, Append(arguments, arg)))

catchSkipArgument(r, arguments) ==
    IF r.ok THEN r
    ELSE after(skipArgument(r.p), LAMBDA q : Ok(q, arguments))

\* One iteration of the do-while over the arguments of a call, and the rest.
parseArguments(p, arguments) ==
    afterNode(catchSkipArgument(parseArgument(p, arguments), arguments),
        LAMBDA q, args :
            IF ~check(q, "RPAREN") /\ ~check(q, "END_OF_FILE")
            THEN parseArguments(q, args)
            ELSE Ok(q, args))

\* while (check(LEFT_SHIFT) || check(RIGHT_SHIFT)) of the do-while over a chain.
streamRest(p, left) ==
    IF checkAny(p, {"LEFT_SHIFT", "RIGHT_SHIFT"})
    THEN parseStreamChain(p, left)
    ELSE Ok(p, left)

\* One iteration of the do-while over a chain of << and >>, and the rest.
parseStreamChain(p, left) ==
    after(advance(p), LAMBDA a :
        IF check(a, "ENDL")
        THEN after(advance(a), LAMBDA b :
                 streamRest(b, BinaryExpression(left, p.cur.type,
                                   IdentifierExpression("endl"))))
        ELSE afterNode(parseExpression(a), LAMBDA b, right :
                 streamRest(b, BinaryExpression(left, p.cur.type, right))))

\* name( arguments ): the opening parenthesis is the current token.
parseCall(p, name) ==
    after(advance(p), LAMBDA b :
    afterNode(IF ~check(b, "RPAREN") THEN parseArguments(b, <<>>) ELSE Ok(b, <<>>),
        LAMBDA q, args :
    after(consume(q, "RPAREN", "Expect ')' after arguments."), LAMBDA c :
    Ok(c, CallExpression(name, args)))))

parsePrimary(p) ==
    catchSynchronizeRethrow(
        CASE checkAny(p, UnaryOps) ->
                after(advance(p), LAMBDA a :
                afterNode(parsePrimary(a), LAMBDA q, operand :
                Ok(q, UnaryExpression(p.cur.type, operand))))
          [] checkAny(p, {"TRUE", "FALSE"}) ->
                after(advance(p), LAMBDA a :
                Ok(a, LiteralExpression(
                          IF check(p, "TRUE") THEN "true" ELSE "false",
                          "BOOL_LITERAL")))
          [] checkAny(p, {"INTEGER_LITERAL", "FLOAT_LITERAL"}) ->
                after(advance(p), LAMBDA a :
                Ok(a, LiteralExpression(p.cur.lexeme, p.cur.type)))
          [] check(p, "CHAR_LITERAL") ->
                after(advance(p), LAMBDA a :
                Ok(a, LiteralExpression(charLiteralValue(p.cur.lexeme),
                                        "CHAR_LITERAL")))
          [] check(p, "STRING_LITERAL") ->
                after(advance(p), LAMBDA a :
                Ok(a, LiteralExpression(stringLiteralValue(p.cur.lexeme),
                                        "STRING_LITERAL")))
          [] check(p, "IDENTIFIER") ->
                after(advance(p), LAMBDA a :
                CASE checkAny(a, {"INCREMENT", "DECREMENT"}) ->
                        after(advance(a), LAMBDA b :
                        Ok(b, UnaryExpression(a.cur.type,
                                  IdentifierExpression(p.cur.lexeme))))
                  [] check(a, "LPAREN") -> parseCall(a, p.cur.lexeme)
                  [] checkAny(a, {"LEFT_SHIFT", "RIGHT_SHIFT"}) ->
                        parseStreamChain(a, IdentifierExpression(p.cur.lexeme))
                  [] OTHER -> Ok(a, IdentifierExpression(p.cur.lexeme)))
          [] check(p, "LPAREN") ->
                after(advance(p), LAMBDA a :
                afterNode(parseExpression(a), LAMBDA q, expr :
                after(consume(q, "RPAREN", "Expect ')' after expression."),
                      LAMBDA c : Ok(c, expr))))
          [] OTHER -> Throw(p, "Expect expression."))

(***************************************************************************)
(* Statements (Parser::parseStatement .. Parser::parseUsingDirective).     *)
(* A chain of calls is written as a chain of results: a step runs only if  *)
(* the one before it returned, and otherwise hands its exception on.       *)
(***************************************************************************)
TypeStart == {"INT", "FLOAT", "CHAR", "VOID", "BOOL", "STRING_LITERAL"}

isStringWord(p) == check(p, "IDENTIFIER") /\ p.cur.lexeme = "string"

\* TokenType type = currentToken.type; "string" as an identifier is STRING_LITERAL.
declaredType(p) == IF isStringWord(p) THEN "STRING_LITERAL" ELSE p.cur.type

RECURSIVE parseStatement(_), parseBlock(_), parseBlockLoop(_, _),
          parseFunctionOrVariableDeclaration(_), parseParameters(_, _),
          parseDeclarators(_, _, _, _), parseInitializer(_),
          parseReturnStatement(_), parseIfStatement(_), parseWhileStatement(_),
          parseForStatement(_), skipSemicolons(_), includePath(_, _),
          parseElse(_), parseExpressionStatement(_, _), parseForInitializer(_),
          parseStatementAt(_), parseFunctionDeclaration(_, _, _),
          parseVariableDeclaration(_, _, _, _), parsePreprocessorDirective(_),
          parseUsingDirective(_)

\* while (match(TokenType::SEMICOLON));
skipSemicolons(p) ==
    IF check(p, "SEMICOLON")
    THEN after(advance(p), LAMBDA q : skipSemicolons(q))
    ELSE Ok(p, Nil)

parseBlockLoop(p, stmts) ==
    IF ~check(p, "RBRACE") /\ ~check(p, "END_OF_FILE")
    THEN afterNode(parseStatement(p), LAMBDA q, stmt :
             parseBlockLoop(q, Append(stmts, stmt)))
    ELSE Ok(p, BlockStatement(stmts))

parseBlock(p) == parseBlockLoop(p, <<>>)

\* if (check(EQUAL)) { advance(); try { parseExpression() } catch { synchronize(); throw; } }
parseInitializer(p) ==
    IF check(p, "EQUAL")
    THEN after(advance(p), LAMBDA q : catchSynchronizeRethrow(parseExpression(q)))
    ELSE Ok(p, Nil)

\* do { one parameter } while (match(COMMA));
parseParameters(p, parameters) ==
    after(advance(p), LAMBDA a :
    after(match(a, "MULTIPLY"), LAMBDA star :
    after(consumeIdentifier(star, "Expect parameter name."), LAMBDA named :
    after(match(named, "COMMA"), LAMBDA more :
    IF check(named, "COMMA")
    THEN parseParameters(more,
             Append(parameters,
                    <<star.cur.lexeme,
                      IF check(a, "MULTIPLY") THEN "POINTER" ELSE declaredType(p)>>))
    ELSE Ok(more,
            Append(parameters,
                   <<star.cur.lexeme,
                     IF check(a, "MULTIPLY") THEN "POINTER"
                     ELSE declaredType(p)>>))))))

\* while (match(COMMA)) { one more declarator }
parseDeclarators(p, type, isPointer, declarations) ==
    IF check(p, "COMMA")
    THEN after(advance(p), LAMBDA c :
         after(consumeIdentifier(c, "Expect identifier after ','."), LAMBDA named :
         afterNode(parseInitializer(named), LAMBDA q, initializer :
         parseDeclarators(q, type, isPointer,
             Append(declarations,
                    VariableDeclaration(type, isPointer, c.cur.lexeme,
                                        initializer))))))
    ELSE Ok(p, declarations)

\* The rest of a function declaration: the '(' is the current token.
parseFunctionDeclaration(p, type, name) ==
    after(advance(p), LAMBDA lp :
    afterNode(IF ~check(lp, "RPAREN") THEN parseParameters(lp, <<>>)
              ELSE Ok(lp, <<>>),
        LAMBDA q, parameters :
    after(consume(q, "RPAREN", "Expect ')' after parameters."), LAMBDA rp :
    after(consume(rp, "LBRACE", "Expect '{' before function body."), LAMBDA lb :
    afterNode(parseBlock(lb), LAMBDA q1, body :
    after(consume(q1, "RBRACE", "Expect '}' after function body."), LAMBDA rb :
    Ok(rb, FunctionDeclaration(name, type, parameters, body))))))))

\* The rest of a variable declaration: the token after the first name is current.
parseVariableDeclaration(p, type, isPointer, name) ==
    afterNode(parseInitializer(p), LAMBDA q, initializer :
    afterNode(parseDeclarators(q, type, isPointer,
                  <<VariableDeclaration(type, isPointer, name, initializer)>>),
        LAMBDA q1, declarations :
    after(IF ~check(q1, "SEMICOLON")
          THEN Throw(q1, "Expect ';' after variable declaration.")
          ELSE advance(q1),
        LAMBDA semi :
    IF Len(declarations) = 1 THEN Ok(semi, declarations[1])
    ELSE Ok(semi, BlockStatement(declarations)))))

parseFunctionOrVariableDeclaration(p) ==
    catchSynchronizeRethrow(
        after(advance(p), LAMBDA a :
        after(match(a, "MULTIPLY"), LAMBDA star :
        after(consumeIdentifier(star, "Expect identifier after type."),
            LAMBDA named :
        IF check(named, "LPAREN")
        THEN parseFunctionDeclaration(named, declaredType(p), star.cur.lexeme)
        ELSE parseVariableDeclaration(named, declaredType(p),
                                      check(a, "MULTIPLY"), star.cur.lexeme)))))

\* while (!check(GREATER) && !check(END_OF_FILE)) { header += lexeme; advance(); }
includePath(p, header) ==
    IF ~check(p, "GREATER") /\ ~check(p, "END_OF_FILE")
    THEN after(advance(p), LAMBDA q : includePath(q, Append(header, p.cur.lexeme)))
    ELSE Ok(p, header)

parsePreprocessorDirective(p) ==
    after(advance(p), LAMBDA a :
    IF check(a, "INCLUDE")
    THEN after(advance(a), LAMBDA inc :
         IF check(inc, "LESS")
         THEN after(advance(inc), LAMBDA lt :
              afterNode(includePath(lt, <<>>), LAMBDA q, header :
              after(consume(q, "GREATER", "Expect '>' after include path"),
                  LAMBDA gt :
              Ok(gt, ExpressionStatement(
                         LiteralExpression(header, "STRING_LITERAL"))))))
         ELSE IF check(inc, "STRING_LITERAL")
         THEN after(advance(inc), LAMBDA str :
              Ok(str, ExpressionStatement(
                          LiteralExpression(<<str.cur.lexeme>>, "STRING_LITERAL"))))
         ELSE Throw(inc, "Expect header name after #include"))
    ELSE Throw(a, "Unsupported preprocessor directive"))

parseUsingDirective(p) ==
    after(advance(p), LAMBDA a :
    IF check(a, "NAMESPACE")
    THEN after(advance(a), LAMBDA ns :
         IF check(ns, "STD")
         THEN after(advance(ns), LAMBDA std :
              after(consume(std, "SEMICOLON", "Expect ';' after namespace std"),
                  LAMBDA semi :
              Ok(semi, ExpressionStatement(
                           IdentifierExpression("using_namespace_std")))))
         ELSE Throw(ns, "Unsupported using directive"))
    ELSE Throw(a, "Unsupported using directive"))

parseReturnStatement(p) ==
    after(advance(p), LAMBDA a :
    afterNode(IF ~check(a, "SEMICOLON") THEN parseExpression(a) ELSE Ok(a, Nil),
        LAMBDA q, value :
    after(consume(q, "SEMICOLON", "Expect ';' after return value."), LAMBDA semi :
    Ok(semi, ReturnStatement(value)))))

\* if (match(ELSE)) { consume(LBRACE); elseBranch = parseBlock(); consume(RBRACE); }
parseElse(p) ==
    IF check(p, "ELSE")
    THEN after(advance(p), LAMBDA a :
         after(consume(a, "LBRACE", "Expect '{' before else body."), LAMBDA lb :
         afterNode(parseBlock(lb), LAMBDA q, elseBranch :
         after(consume(q, "RBRACE", "Expect '}' after else body."), LAMBDA rb :
         Ok(rb, elseBranch)))))
    ELSE Ok(p, Nil)

parseIfStatement(p) ==
    after(advance(p), LAMBDA a :
    after(consume(a, "LPAREN", "Expect '(' after 'if'."), LAMBDA lp :
    afterNode(parseExpression(lp), LAMBDA q, condition :
    after(consume(q, "RPAREN", "Expect ')' after if condition."), LAMBDA rp :
    after(consume(rp, "LBRACE", "Expect '{' before if body."), LAMBDA lb :
    afterNode(parseBlock(lb), LAMBDA q1, thenBranch :
    after(consume(q1, "RBRACE", "Expect '}' after if body."), LAMBDA rb :
    afterNode(parseElse(rb), LAMBDA q2, elseBranch :
    Ok(q2, IfStatement(condition, thenBranch, elseBranch))))))))))

parseWhileStatement(p) ==
    after(advance(p), LAMBDA a :
    after(consume(a, "LPAREN", "Expect '(' after 'while'."), LAMBDA lp :
    afterNode(parseExpression(lp), LAMBDA q, condition :
    after(consume(q, "RPAREN", "Expect ')' after condition."), LAMBDA rp :
    after(consume(rp, "LBRACE", "Expect '{' before while body."), LAMBDA lb :
    afterNode(parseBlock(lb), LAMBDA q1, body :
    after(consume(q1, "RBRACE", "Expect '}' after while body."), LAMBDA rb :
    Ok(rb, WhileStatement(condition, body)))))))))

\* expression; as a statement: the expression and its ';'.
parseExpressionStatement(p, message) ==
    afterNode(parseExpression(p), LAMBDA q, expr :
    after(consume(q, "SEMICOLON", message), LAMBDA semi :
    Ok(semi, ExpressionStatement(expr))))

\* The initializer clause of a for statement.
parseForInitializer(p) ==
    IF check(p, "SEMICOLON") THEN advance(p)
    ELSE IF checkAny(p, TypeStart \ {"VOID"}) \/ isStringWord(p)
    THEN parseFunctionOrVariableDeclaration(p)
    ELSE parseExpressionStatement(p, "Expect ';' after for initializer.")

parseForStatement(p) ==
    after(advance(p), LAMBDA a :
    after(consume(a, "LPAREN", "Expect '(' after 'for'."), LAMBDA lp :
    afterNode(parseForInitializer(lp), LAMBDA q, initializer :
    afterNode(IF ~check(q, "SEMICOLON") THEN parseExpression(q) ELSE Ok(q, Nil),
        LAMBDA q1, condition :
    after(consume(q1, "SEMICOLON", "Expect ';' after for condition."), LAMBDA semi :
    afterNode(IF ~check(semi, "RPAREN") THEN parseExpression(semi)
              ELSE Ok(semi, Nil),
        LAMBDA q2, increment :
    after(consume(q2, "RPAREN", "Expect ')' after for clauses."), LAMBDA rp :
    after(consume(rp, "LBRACE", "Expect '{' before for body."), LAMBDA lb :
    afterNode(parseBlock(lb), LAMBDA q3, body :
    after(consume(q3, "RBRACE", "Expect '}' after for body."), LAMBDA rb :
    Ok(rb, ForStatement(initializer, condition, increment, body))))))))))))

\* The statement the current token starts.
parseStatementAt(q) ==
    CASE check(q, "HASH") -> parsePreprocessorDirective(q)
      [] check(q, "USING") -> parseUsingDirective(q)
      [] check(q, "RETURN") -> parseReturnStatement(q)
      [] check(q, "IF") -> parseIfStatement(q)
      [] check(q, "WHILE") -> parseWhileStatement(q)
      [] check(q, "FOR") -> parseForStatement(q)
      [] checkAny(q, TypeStart) \/ isStringWord(q) ->
            parseFunctionOrVariableDeclaration(q)
      [] OTHER -> parseExpressionStatement(q, "Expect ';' after expression.")

parseStatement(p) ==
    catchSynchronizeRethrow(
        after(skipSemicolons(p), LAMBDA q : parseStatementAt(q)))

(***************************************************************************)
(* The symbol table (src/symboltable.h, src/symboltable.cpp).  A Scope is  *)
(* a function from the names it holds to their Symbol; the SymbolTable is  *)
(* the sequence of its scopes, the global scope first.                     *)
(***************************************************************************)
\* Symbol(name, type, isPointer, kind): returnType is left unset, parameters empty.
Symbol(name, type, isPointer, kind) ==
    [name |-> name, type |-> type, isPointer |-> isPointer, kind |-> kind,
     returnType |-> "UNSET", parameters |-> <<>>]

\* Symbol(name, returnType, parameters), the constructor for functions: type is left unset.
FunctionSymbol(name, returnType, parameters) ==
    [name |-> name, type |-> "UNSET", isPointer |-> FALSE, kind |-> "FUNCTION",
     returnType |-> returnType, parameters |-> parameters]

\* The null Symbol*.
NoSymbol == [kind |-> "nullptr"]

isNull(symbol) == symbol.kind = "nullptr"

EmptyScope == <<>>

ScopeContains(scope, name) == name \in DOMAIN scope

ScopeDefine(scope, symbol) ==
    IF ScopeContains(scope, symbol.name)
    THEN [ok |-> FALSE, scope |-> scope]
    ELSE [ok |-> TRUE, scope |-> scope @@ (symbol.name :> symbol)]

ScopeResolve(scope, name) ==
    IF ScopeContains(scope, name) THEN scope[name] ELSE NoSymbol

enterScope(sc) == Append(sc, EmptyScope)

\* A pop that forgets the guard scopes.size() > 1.
exitScopeUnguarded(sc) == SubSeq(sc, 1, Len(sc) - 1)

exitScope(sc) == IF Len(sc) > 1 THEN SubSeq(sc, 1, Len(sc) - 1) ELSE sc

define(sc, symbol) ==
    LET d == ScopeDefine(sc[Len(sc)], symbol)
    IN  [ok |-> d.ok, scopes |-> [sc EXCEPT ![Len(sc)] = d.scope]]

\* A walk that starts at the global scope, not at the innermost one.
RECURSIVE resolveOutermostFirst(_, _, _)
resolveOutermostFirst(sc, name, i) ==
    IF i = 0 THEN NoSymbol
    ELSE IF ~isNull(resolveOutermostFirst(sc, name, i - 1))
    THEN resolveOutermostFirst(sc, name, i - 1)
    ELSE ScopeResolve(sc[i], name)

RECURSIVE resolveFrom(_, _, _)
resolveFrom(sc, name, i) ==
    IF i = 0 THEN NoSymbol
    ELSE IF ScopeContains(sc[i], name) THEN ScopeResolve(sc[i], name)
    ELSE resolveFrom(sc, name, i - 1)

resolve(sc, name) == resolveFrom(sc, name, Len(sc))

resolveLocal(sc, name) == ScopeResolve(sc[Len(sc)], name)

isGlobalScope(sc) == Len(sc) = 1

(***************************************************************************)
(* The type checker (src/typechecker.cpp).  A TypeError is a pair          *)
(* <<text, name>>: the fixed text of the message and the name it quotes.   *)
(* Checking an expression reads the symbol table and changes nothing, so   *)
(* the expression operators take the scopes and return the type, or the    *)
(* error thrown.                                                           *)
(***************************************************************************)
NoError == <<"", "">>

Typed(type) == [ok |-> TRUE, type |-> type, msg |-> NoError]

TypeError(text, name) == [ok |-> FALSE, type |-> "UNSET", msg |-> <<text, name>>]

isNumericType(type) ==
    type \in {"INTEGER_LITERAL", "FLOAT_LITERAL", "INT", "FLOAT"}

isBooleanType(type) == type \in {"BOOL", "BOOL_LITERAL", "TRUE", "FALSE"}

isPointerType(type) == type = "POINTER"

isCompatibleType(left, right) ==
    \/ left = right
    \/ isNumericType(left) /\ isNumericType(right)
    \/ isBooleanType(left) /\ isBooleanType(right)
    \/ isPointerType(left) /\ right = "INTEGER_LITERAL"

\* paramType != argType && !(paramType == FLOAT && (argType == INTEGER_LITERAL || argType == INT))
strictMismatch(target, value) ==
    target # value /\ ~(target = "FLOAT" /\ value \in {"INTEGER_LITERAL", "INT"})

symbolType(symbol) == IF symbol.isPointer THEN "POINTER" ELSE symbol.type

ArithmeticOps == {"PLUS", "MINUS", "MULTIPLY", "SLASH"}

ComparisonOps ==
    {"EQUAL_EQUAL", "NOT_EQUAL", "LESS", "LESS_EQUAL", "GREATER", "GREATER_EQUAL"}

RECURSIVE checkExpression(_, _), checkUnary(_, _), checkBinary(_, _),
          checkLogical(_, _), checkAssign(_, _), checkCall(_, _),
          checkArguments(_, _, _, _)

checkLiteral(expr) == Typed(expr.literalType)

checkIdentifier(expr, sc) ==
    LET symbol == resolve(sc, expr.name)
    IN  IF isNull(symbol) THEN TypeError("Undefined variable", expr.name)
        ELSE IF symbol.kind = "FUNCTION"
        THEN TypeError("is a function and cannot be used as a variable", expr.name)
        ELSE Typed(symbolType(symbol))

checkUnary(expr, sc) ==
    LET right == checkExpression(expr.operand, sc)
    IN  IF ~right.ok THEN right
        ELSE IF expr.op \in {"MINUS", "PLUS"}
        THEN IF ~isNumericType(right.type)
             THEN TypeError("Unary '+' and '-' operators require numeric operands", "")
             ELSE right
        ELSE IF expr.op = "NOT" THEN Typed("BOOL")
        ELSE IF expr.op \in {"INCREMENT", "DECREMENT"}
        THEN IF ~isNumericType(right.type)
             THEN TypeError("Increment and decrement operators require numeric operands", "")
             ELSE right
        ELSE IF expr.op = "MULTIPLY"
        THEN IF right.type # "POINTER"
             THEN TypeError("Cannot dereference non-pointer type", "")
             ELSE Typed("INT")
        ELSE IF expr.op = "AMPERSAND" THEN Typed("POINTER")
        ELSE TypeError("Unsupported unary operator", expr.op)

checkBinary(expr, sc) ==
    LET left == checkExpression(expr.left, sc)
        right == checkExpression(expr.right, sc)
        op == expr.op
    IN  IF ~left.ok THEN left
        ELSE IF ~right.ok THEN right
        ELSE IF op \in {"LEFT_SHIFT", "RIGHT_SHIFT"} THEN left
        ELSE IF op \in ArithmeticOps
        THEN IF op = "PLUS" /\ "STRING_LITERAL" \in {left.type, right.type}
             THEN Typed("STRING_LITERAL")
             ELSE IF /\ op \in {"PLUS", "MINUS"}
                     /\ \/ left.type = "POINTER" /\ isNumericType(right.type)
                        \/ /\ right.type = "POINTER"
                           /\ op = "PLUS"
                           /\ isNumericType(left.type)
             THEN Typed("POINTER")
             ELSE IF ~isNumericType(left.type) \/ ~isNumericType(right.type)
             THEN TypeError("Binary operator requires numeric operands", op)
             ELSE IF "FLOAT_LITERAL" \in {left.type, right.type}
             THEN Typed("FLOAT_LITERAL")
             ELSE Typed("INTEGER_LITERAL")
        ELSE IF op \in ComparisonOps
        THEN IF ~isCompatibleType(left.type, right.type)
             THEN TypeError("Cannot compare incompatible types", "")
             ELSE Typed("BOOL")
        ELSE TypeError("Unsupported binary operator", op)

checkLogical(expr, sc) ==
    LET left == checkExpression(expr.left, sc)
        right == checkExpression(expr.right, sc)
    IN  IF ~left.ok THEN left
        ELSE IF ~right.ok THEN right
        ELSE IF ~isBooleanType(left.type)
        THEN TypeError("Left operand of logical operator must be boolean", "")
        ELSE IF ~isBooleanType(right.type)
        THEN TypeError("Right operand of logical operator must be boolean", "")
        ELSE Typed("BOOL")

checkAssign(expr, sc) ==
    LET symbol == resolve(sc, expr.name)
        right == checkExpression(expr.value, sc)
    IN  IF isNull(symbol)
        THEN TypeError("Cannot assign to undeclared variable", expr.name)
        ELSE IF symbol.kind = "FUNCTION"
        THEN TypeError("Cannot assign to function", expr.name)
        ELSE IF ~right.ok THEN right
        ELSE IF /\ symbolType(symbol) # right.type
                /\ ~(symbolType(symbol) = "FLOAT"
                        /\ right.type \in {"INTEGER_LITERAL", "INT"})
        THEN TypeError("Cannot assign to variable of type", expr.name)
        ELSE Typed(symbolType(symbol))

\* for (size_t i = 0; i < args.size(); ++i): argument i + 1 and the ones after it.
checkArguments(expr, params, i, sc) ==
    IF i > Len(expr.arguments) THEN Typed("UNSET")
    ELSE LET arg == checkExpression(expr.arguments[i], sc)
         IN  IF ~arg.ok THEN arg
             ELSE IF strictMismatch(params[i][2], arg.type)
             THEN TypeError("Argument has incompatible type", expr.callee)
             ELSE checkArguments(expr, params, i + 1, sc)

checkCall(expr, sc) ==
    LET symbol == resolve(sc, expr.callee)
    IN  IF isNull(symbol) THEN TypeError("Undefined function", expr.callee)
        ELSE IF symbol.kind # "FUNCTION"
        THEN TypeError("is not a function", expr.callee)
        ELSE IF Len(symbol.parameters) # Len(expr.arguments)
        THEN TypeError("Function expects a different number of arguments",
                       expr.callee)
        ELSE LET args == checkArguments(expr, symbol.parameters, 1, sc)
             IN  IF ~args.ok THEN args ELSE Typed(symbol.returnType)

checkExpression(expr, sc) ==
    CASE expr.k = "Literal" -> checkLiteral(expr)
      [] expr.k = "Identifier" -> checkIdentifier(expr, sc)
      [] expr.k = "Unary" -> checkUnary(expr, sc)
      [] expr.k = "Binary" -> checkBinary(expr, sc)
      [] expr.k = "Logical" -> checkLogical(expr, sc)
      [] expr.k = "Assign" -> checkAssign(expr, sc)
      [] expr.k = "Call" -> checkCall(expr, sc)
      [] OTHER -> TypeError("Unknown expression type", "")

(***************************************************************************)
(* Statements of the type checker.  The checker's state is                 *)
(*   scopes      symbolTable                                               *)
(*   name        currentFunctionName                                       *)
(*   returnType  currentFunctionReturnType                                 *)
(*   inBody      inFunctionBody                                            *)
(* and a result carries the state the call left, at its return or at the   *)
(* throw.                                                                  *)
(***************************************************************************)
Checker(sc, name, returnType, inBody) ==
    [scopes |-> sc, name |-> name, returnType |-> returnType, inBody |-> inBody]

Checked(c) == [c |-> c, ok |-> TRUE, msg |-> NoError]

Thrown(c, msg) == [c |-> c, ok |-> FALSE, msg |-> msg]

RECURSIVE checkStatement(_, _), checkStatements(_, _, _), checkBlock(_, _),
          checkFunctionDeclaration(_, _), checkIfStatement(_, _),
          checkWhileStatement(_, _), checkForStatement(_, _),
          defineParameters(_, _, _)

\* for (const auto& statement : statements) checkStatement(statement.get());
checkStatements(stmts, i, c) ==
    IF i > Len(stmts) THEN Checked(c)
    ELSE LET r == checkStatement(stmts[i], c)
         IN  IF r.ok THEN checkStatements(stmts, i + 1, r.c) ELSE r

checkExpressionStatement(stmt, c) ==
    LET e == checkExpression(stmt.expression, c.scopes)
    IN  IF e.ok THEN Checked(c) ELSE Thrown(c, e.msg)

checkBlock(stmt, c) ==
    LET r == checkStatements(stmt.statements, 1,
                             [c EXCEPT !.scopes = enterScope(c.scopes)])
    IN  IF r.ok THEN Checked([r.c EXCEPT !.scopes = exitScope(r.c.scopes)])
        ELSE r

checkVariableDeclaration(stmt, c) ==
    LET init == checkExpression(stmt.initializer, c.scopes)
    IN  IF ~isNull(resolve(c.scopes, stmt.name))
        THEN Thrown(c, <<"Variable already defined", stmt.name>>)
        ELSE IF ~isNil(stmt.initializer) /\ ~init.ok THEN Thrown(c, init.msg)
        ELSE IF ~isNil(stmt.initializer) /\ ~isCompatibleType(stmt.type, init.type)
        THEN Thrown(c, <<"Cannot initialize variable", stmt.name>>)
        ELSE Checked([c EXCEPT !.scopes =
                        define(c.scopes,
                               Symbol(stmt.name, stmt.type, stmt.isPointer,
                                      "VARIABLE")).scopes])

\* for (const auto& param : stmt->getParameters()) symbolTable.define(paramSymbol);
defineParameters(sc, parameters, i) ==
    IF i > Len(parameters) THEN sc
    ELSE defineParameters(
             define(sc, Symbol(parameters[i][1], parameters[i][2],
                               parameters[i][2] = "POINTER", "PARAMETER")).scopes,
             parameters, i + 1)

checkFunctionDeclaration(stmt, c) ==
    LET symbol == resolve(c.scopes, stmt.name)
        r == checkStatement(stmt.body,
                 Checker(defineParameters(enterScope(c.scopes), stmt.parameters, 1),
                         stmt.name, stmt.returnType, TRUE))
    IN  IF isNull(symbol) \/ symbol.kind # "FUNCTION"
        THEN Thrown(c, <<"Internal error: function not found in symbol table", "">>)
        ELSE IF ~r.ok THEN r
        ELSE Checked(Checker(exitScope(r.c.scopes), c.name, c.returnType, c.inBody))

checkIfStatement(stmt, c) ==
    LET cond == checkExpression(stmt.condition, c.scopes)
        thenBranch == checkStatement(stmt.thenBranch, c)
    IN  IF ~cond.ok THEN Thrown(c, cond.msg)
        ELSE IF ~isBooleanType(cond.type)
        THEN Thrown(c, <<"If condition must be boolean", "">>)
        ELSE IF ~thenBranch.ok THEN thenBranch
        ELSE IF ~isNil(stmt.elseBranch)
        THEN checkStatement(stmt.elseBranch, thenBranch.c)
        ELSE thenBranch

checkWhileStatement(stmt, c) ==
    LET cond == checkExpression(stmt.condition, c.scopes)
    IN  IF ~cond.ok THEN Thrown(c, cond.msg)
        ELSE IF ~isBooleanType(cond.type)
        THEN Thrown(c, <<"While condition must be boolean", "">>)
        ELSE checkStatement(stmt.body, c)

checkForStatement(stmt, c) ==
    LET entered == [c EXCEPT !.scopes = enterScope(c.scopes)]
        init == IF ~isNil(stmt.initializer)
                THEN checkStatement(stmt.initializer, entered)
                ELSE Checked(entered)
        cond == checkExpression(stmt.condition, init.c.scopes)
        inc == checkExpression(stmt.increment, init.c.scopes)
        body == checkStatement(stmt.body, init.c)
    IN  IF ~init.ok THEN init
        ELSE IF ~isNil(stmt.condition) /\ ~cond.ok THEN Thrown(init.c, cond.msg)
        ELSE IF ~isNil(stmt.condition) /\ ~isBooleanType(cond.type)
        THEN Thrown(init.c, <<"For loop condition must be boolean", "">>)
        ELSE IF ~isNil(stmt.increment) /\ ~inc.ok THEN Thrown(init.c, inc.msg)
        ELSE IF ~body.ok THEN body
        ELSE Checked([body.c EXCEPT !.scopes = exitScope(body.c.scopes)])

checkReturnStatement(stmt, c) ==
    LET value == checkExpression(stmt.value, c.scopes)
    IN  IF ~c.inBody
        THEN Thrown(c, <<"Return statement outside of function body", "">>)
        ELSE IF ~isNil(stmt.value)
        THEN IF ~value.ok THEN Thrown(c, value.msg)
             ELSE IF c.returnType = "VOID"
             THEN Thrown(c, <<"Cannot return a value from void function", "">>)
             ELSE IF ~isCompatibleType(c.returnType, value.type)
             THEN Thrown(c, <<"Function returns a different type", c.name>>)
             ELSE Checked(c)
        ELSE IF c.returnType # "VOID"
        THEN Thrown(c, <<"Function must return a value", c.name>>)
        ELSE Checked(c)

checkStatement(stmt, c) ==
    CASE stmt.k = "ExpressionStatement" -> checkExpressionStatement(stmt, c)
      [] stmt.k = "Block" -> checkBlock(stmt, c)
      [] stmt.k = "VariableDeclaration" -> checkVariableDeclaration(stmt, c)
      [] stmt.k = "FunctionDeclaration" -> checkFunctionDeclaration(stmt, c)
      [] stmt.k = "If" -> checkIfStatement(stmt, c)
      [] stmt.k = "While" -> checkWhileStatement(stmt, c)
      [] stmt.k = "For" -> checkForStatement(stmt, c)
      [] stmt.k = "Return" -> checkReturnStatement(stmt, c)
      [] OTHER -> Thrown(c, <<"Unknown statement type", "">>)

(***************************************************************************)
(* The sources compiled: a program is a sequence of at most MaxStmts       *)
(* pieces, each the lexical items of one top-level construct.              *)
(***************************************************************************)
id(name) == Tok("IDENTIFIER", name)

num(n) == Tok("INTEGER_LITERAL", n)

INT == Tok("INT", "int")

VOID == Tok("VOID", "void")

FOR == Tok("FOR", "for")

RETURN == Tok("RETURN", "return")

SEMI == Tok("SEMICOLON", ";")

EQ == Tok("EQUAL", "=")

LT == Tok("LESS", "<")

LP == Tok("LPAREN", "(")

RP == Tok("RPAREN", ")")

LB == Tok("LBRACE", "{")

RB == Tok("RBRACE", "}")

PLUS == Tok("PLUS", "+")

STAR == Tok("MULTIPLY", "*")

INC == Tok("INCREMENT", "++")

USING == Tok("USING", "using")

NAMESPACE == Tok("NAMESPACE", "namespace")

STD == Tok("STD", "std")

COMMA == Tok("COMMA", ",")

BADCHAR == Tok("BADCHAR", "@")

UNTERMINATED == Tok("UNTERMINATED", "\"")

Pieces ==
    { <<INT, id("x"), SEMI>>,                                \* int x;
      <<INT, id("y"), EQ, num("1"), SEMI>>,                  \* int y = 1;
      <<INT, id("t1"), EQ, num("1"), SEMI>>,                 \* int t1 = 1;
      <<USING, NAMESPACE, STD, SEMI>>,                       \* using namespace std;
      <<id("x"), EQ, num("1"), SEMI>>,                       \* x = 1;
      <<id("x"), id("x"), SEMI>>,                            \* x x;
      <<id("x"), EQ, RP, SEMI>>,                             \* x = );
      <<BADCHAR>>,                                           \* @
      <<id("x"), BADCHAR, SEMI>>,                            \* x @;
      <<UNTERMINATED>>,                                      \* "abc
      <<RETURN, SEMI>>,                                      \* return;
      <<INT, id("f"), LP, RP, LB, RETURN, id("y"), SEMI, RB>>,
                                                             \* int f() { return y; }
      <<VOID, id("v"), LP, RP, LB, id("y"), SEMI, id("z"), SEMI, RB>>,
                                                             \* void v() { y; z; }
      <<FOR, LP, INT, id("i"), EQ, num("0"), SEMI, id("i"), LT, id("z"), SEMI,
        RP, LB, RB>>,                                        \* for (int i = 0; i < z;) {}
      <<FOR, LP, INT, id("i"), EQ, num("0"), SEMI, id("i"), LT, num("1"), SEMI,
        RP, LB, RB>>,                                        \* for (int i = 0; i < 1;) {}
      <<id("i"), SEMI>>,                                     \* i;
      <<INT, id("g"), LP, INT, id("g"), RP, LB, RETURN, id("y"), SEMI, RB>>,
                                                             \* int g(int g) { return y; }
      <<INT, id("h"), LP, RP, LB, RETURN, id("g"), LP, RP, SEMI, RB>>,
                                                             \* int h() { return g(); }
      <<INT, id("g"), LP, RP, LB, RETURN, num("1"), SEMI, RB>>,
                                                             \* int g() { return 1; }
      <<INT, id("g"), LP, INT, id("a"), RP, LB, RETURN, id("a"), SEMI, RB>>,
                                                             \* int g(int a) { return a; }
      <<INT, id("i"), COMMA, id("j"), SEMI>>,                \* int i, j;
      <<INT, id("z"), EQ, id("y"), SEMI>>,                   \* int z = y;
      <<id("x"), EQ, id("x"), SEMI>>,                        \* x = x;
      <<VOID, id("L1"), LP, RP, LB, Tok("IF", "if"), LP, num("1"), LT, num("1"),
        RP, LB, RB, RB>>                                     \* void L1() { if (1 < 1) {} }
    }

Programs == UNION {[1..n -> Pieces] : n \in 0..MaxStmts}

RECURSIVE Flatten(_)
Flatten(pieces) ==
    IF pieces = <<>> THEN <<>> ELSE Head(pieces) \o Flatten(Tail(pieces))

\* The value of token before the first call of getNextToken.
NoToken == [ok |-> TRUE, tok |-> Token("NONE", <<>>, 1), msg |-> ""]

\* The lexer and the parser of one assignment, when the run does not use them.
LexerIdle ==
    /\ input = <<>>
    /\ lexer = [position |-> 0, line |-> 1]
    /\ token = NoToken
    /\ literal = Nil

SampleIdle == sample = <<>> /\ parsed = <<>>

(***************************************************************************)
(* The code generator (src/codegen.cpp).  A generator is its instruction   *)
(* list, its two counters and the lines it has written to std::cerr.       *)
(***************************************************************************)
Instruction(opcode, arg1, arg2, result) ==
    [opcode |-> opcode, arg1 |-> arg1, arg2 |-> arg2, result |-> result]

CodeGenerator(list, temps, labels, cerr) ==
    [instructions |-> list, tempVarCounter |-> temps, labelCounter |-> labels,
     cerr |-> cerr]

\* instructions.emplace_back(...)
emit(g, instruction) ==
    [g EXCEPT !.instructions = Append(@, instruction)]

warn(g, message) == [g EXCEPT !.cerr = Append(@, <<"Warning", message>>)]

\* ++tempVarCounter, and the name the call returns with the counter it left.
generateTemp(g) == [g EXCEPT !.tempVarCounter = @ + 1]

temp(g) == "t" \o ToString(g.tempVarCounter)

generateLabel(g) == [g EXCEPT !.labelCounter = @ + 1]

label(g) == "L" \o ToString(g.labelCounter)

RECURSIVE generateExpression(_, _), generateStatement(_, _),
          generateStatements(_, _, _), generateBinaryExpression(_, _),
          generateFunctionCall(_, _), generateArguments(_, _, _, _),
          generateVariableDeclaration(_, _), generateFunctionDeclaration(_, _),
          generateBlock(_, _), generateIfStatement(_, _),
          generateWhileStatement(_, _), generateForStatement(_, _),
          generateReturnStatement(_, _)

generateIdentifier(g, expr) ==
    emit(generateTemp(g),
         Instruction("LOAD", expr.name, "", temp(generateTemp(g))))

\* std::string temp = generateTemp(); then STORE value -> temp.
storeTemp(g, value) ==
    emit(generateTemp(g), Instruction("STORE", value, "", temp(generateTemp(g))))

generateLiteral(g, expr) == storeTemp(g, expr.value)

\* The switch over the operator: the opcode, or "" for the default branch.
binaryOpcode(op) ==
    CASE op = "PLUS" -> "ADD"
      [] op = "MINUS" -> "SUB"
      [] op = "MULTIPLY" -> "MUL"
      [] op = "SLASH" -> "DIV"
      [] op \in {"EQUAL_EQUAL", "NOT_EQUAL", "LESS", "LESS_EQUAL", "GREATER",
                 "GREATER_EQUAL"} -> "CMP"
      [] OTHER -> ""

\* std::string resultTemp = generateTemp(); switch (expr->getOperator()) ...
binaryOperation(g, leftTemp, rightTemp, op) ==
    IF binaryOpcode(op) # ""
    THEN emit(generateTemp(g),
              Instruction(binaryOpcode(op), leftTemp, rightTemp,
                          temp(generateTemp(g))))
    ELSE warn(generateTemp(g), "Unsupported binary operator")

\* generateExpression(right); rightTemp = generateTemp(); on the state gl that
\* leftTemp = generateTemp() left.
binaryRight(gl, expr) ==
    binaryOperation(generateTemp(generateExpression(gl, expr.right)), temp(gl),
                    temp(generateTemp(generateExpression(gl, expr.right))),
                    expr.op)

generateBinaryExpression(g, expr) ==
    binaryRight(generateTemp(generateExpression(g, expr.left)), expr)

pushAll(g, argTemps) ==
    [g EXCEPT !.instructions =
        @ \o [i \in 1..Len(argTemps) |-> Instruction("PUSH", argTemps[i], "", "")]]

popAll(g, n) ==
    [g EXCEPT !.instructions = @ \o [i \in 1..n |-> Instruction("POP", "", "", "")]]

\* The pushes, the call, the pops and the store of the return value.
callWith(g, callee, argTemps) ==
    storeTemp(
        popAll(emit(pushAll(g, argTemps), Instruction("CALL", callee, "", "")),
               Len(argTemps)),
        "retval")

\* The loop over the arguments: generateExpression(arg), then generateTemp().
generateArguments(g, callee, arguments, argTemps) ==
    IF arguments = <<>> THEN callWith(g, callee, argTemps)
    ELSE generateArguments(
             generateTemp(generateExpression(g, Head(arguments))), callee,
             Tail(arguments),
             Append(argTemps,
                    temp(generateTemp(generateExpression(g, Head(arguments))))))

generateFunctionCall(g, expr) ==
    generateArguments(g, expr.callee, expr.arguments, <<>>)

generateExpression(g, expr) ==
    CASE expr.k = "Binary" -> generateBinaryExpression(g, expr)
      [] expr.k = "Identifier" -> generateIdentifier(g, expr)
      [] expr.k = "Literal" -> generateLiteral(g, expr)
      [] expr.k = "Call" -> generateFunctionCall(g, expr)
      [] OTHER -> warn(g, "Unsupported expression type")

\* value = generateTemp() follows generateExpression(init): the name is a new one.
generateVariableDeclaration(g, decl) ==
    IF decl.initializer # Nil
    THEN emit(generateTemp(generateExpression(g, decl.initializer)),
              Instruction("STORE",
                          temp(generateTemp(generateExpression(g, decl.initializer))),
                          "", decl.name))
    ELSE emit(g, Instruction("STORE", "", "", decl.name))

\* if (instructions.empty() || instructions.back().opcode != OpCode::RET)
closeFunction(g) ==
    IF g.instructions = <<>>
       \/ g.instructions[Len(g.instructions)].opcode # "RET"
    THEN emit(g, Instruction("RET", "", "", ""))
    ELSE g

generateFunctionDeclaration(g, decl) ==
    closeFunction(
        IF decl.body # Nil
        THEN generateStatement(emit(g, Instruction("LABEL", decl.name, "", "")),
                               decl.body)
        ELSE emit(g, Instruction("LABEL", decl.name, "", "")))

generateStatements(g, statements, i) ==
    IF i > Len(statements) THEN g
    ELSE generateStatements(generateStatement(g, statements[i]), statements, i + 1)

generateBlock(g, block) == generateStatements(g, block.statements, 1)

\* The else branch, if there is one, between the two labels.
elseBranchOf(g, ifStmt, elseLabel, endLabel) ==
    emit(IF ifStmt.elseBranch # Nil
         THEN generateStatement(emit(g, Instruction("LABEL", elseLabel, "", "")),
                                ifStmt.elseBranch)
         ELSE emit(g, Instruction("LABEL", elseLabel, "", "")),
         Instruction("LABEL", endLabel, "", ""))

\* g has taken the two labels.
ifLabelled(g, ifStmt, elseLabel, endLabel) ==
    elseBranchOf(
        emit(generateStatement(
                 emit(generateExpression(g, ifStmt.condition),
                      Instruction("JE", elseLabel, "", "")),
                 ifStmt.thenBranch),
             Instruction("JMP", endLabel, "", "")),
        ifStmt, elseLabel, endLabel)

generateIfStatement(g, ifStmt) ==
    ifLabelled(generateLabel(generateLabel(g)), ifStmt, label(generateLabel(g)),
               label(generateLabel(generateLabel(g))))

whileLabelled(g, whileStmt, startLabel, endLabel) ==
    emit(emit(generateStatement(
                  emit(generateExpression(
                           emit(g, Instruction("LABEL", startLabel, "", "")),
                           whileStmt.condition),
                       Instruction("JE", endLabel, "", "")),
                  whileStmt.body),
              Instruction("JMP", startLabel, "", "")),
         Instruction("LABEL", endLabel, "", ""))

generateWhileStatement(g, whileStmt) ==
    whileLabelled(generateLabel(generateLabel(g)), whileStmt,
                  label(generateLabel(g)), label(generateLabel(generateLabel(g))))

forInitializer(g, forStmt) ==
    IF forStmt.initializer # Nil THEN generateStatement(g, forStmt.initializer)
    ELSE g

forCondition(g, forStmt, endLabel) ==
    IF forStmt.condition # Nil
    THEN emit(generateExpression(g, forStmt.condition),
              Instruction("JE", endLabel, "", ""))
    ELSE g

forIncrement(g, forStmt) ==
    IF forStmt.increment # Nil THEN generateExpression(g, forStmt.increment)
    ELSE g

forLabelled(g, forStmt, startLabel, endLabel) ==
    emit(emit(forIncrement(
                  generateStatement(
                      forCondition(
                          emit(forInitializer(g, forStmt),
                               Instruction("LABEL", startLabel, "", "")),
                          forStmt, endLabel),
                      forStmt.body),
                  forStmt),
              Instruction("JMP", startLabel, "", "")),
         Instruction("LABEL", endLabel, "", ""))

generateForStatement(g, forStmt) ==
    forLabelled(generateLabel(generateLabel(g)), forStmt,
                label(generateLabel(g)), label(generateLabel(generateLabel(g))))

generateReturnStatement(g, returnStmt) ==
    emit(IF returnStmt.value # Nil THEN generateExpression(g, returnStmt.value)
         ELSE g,
         Instruction("RET", "", "", ""))

generateStatement(g, stmt) ==
    CASE stmt.k = "VariableDeclaration" -> generateVariableDeclaration(g, stmt)
      [] stmt.k = "FunctionDeclaration" -> generateFunctionDeclaration(g, stmt)
      [] stmt.k = "Block" -> generateBlock(g, stmt)
      [] stmt.k = "If" -> generateIfStatement(g, stmt)
      [] stmt.k = "While" -> generateWhileStatement(g, stmt)
      [] stmt.k = "For" -> generateForStatement(g, stmt)
      [] stmt.k = "Return" -> generateReturnStatement(g, stmt)
      [] stmt.k = "ExpressionStatement" -> generateExpression(g, stmt.expression)
      [] OTHER -> warn(g, "Unsupported statement type")

generate(g, statements) == generateStatements(g, statements, 1)

\* it = instructions.erase(it)
erase(list, i) == SubSeq(list, 1, i - 1) \o SubSeq(list, i + 1, Len(list))

RECURSIVE optimizeRescanning(_, _), optimizeFrom(_, _)

\* A pass that, after it has erased a pair, looks again from the start.
optimizeRescanning(list, i) ==
    IF i > Len(list) THEN list
    ELSE IF list[i].opcode = "LOAD" /\ i + 1 <= Len(list)
            /\ list[i + 1].opcode = "STORE"
    THEN optimizeRescanning(erase(erase(list, i), i), 1)
    ELSE optimizeRescanning(list, i + 1)

\* The loop of optimize() with `it` at the i-th instruction.
optimizeFrom(list, i) ==
    IF i > Len(list) THEN list
    ELSE IF list[i].opcode = "LOAD" /\ i + 1 <= Len(list)
            /\ list[i + 1].opcode = "STORE"
    THEN optimizeFrom(erase(erase(list, i), i), i)
    ELSE optimizeFrom(list, i + 1)

optimize(list) == optimizeFrom(list, 1)

(***************************************************************************)
(* The driver (src/main.cpp): main constructs the lexer, the parser (whose *)
(* constructor pulls the first token), the type checker (whose symbol      *)
(* table opens the global scope) and the code generator, then runs the     *)
(* phases.                                                                 *)
(***************************************************************************)
Init ==
    /\ prog \in Programs
    /\ src = Flatten(prog)
    /\ position = 1
    /\ currentToken = DefaultToken
    /\ ast = <<>>
    /\ stderr = <<>>
    /\ ran = <<>>
    /\ lexErrors = 0
    /\ pc = "main"
    /\ exitCode = -1
    /\ scopes = enterScope(<<>>)
    /\ currentFunctionName = ""
    /\ currentFunctionReturnType = "VOID"
    /\ inFunctionBody = FALSE
    /\ errors = <<>>
    /\ idx = 0
    /\ nest = 0
    /\ wellNested = TRUE
    /\ defines = <<<<>>>>
    /\ LexerIdle
    /\ SampleIdle
    /\ instructions = <<>>
    /\ tempVarCounter = 0
    /\ labelCounter = 0
    /\ listing = <<>>

parserVars == <<position, currentToken, lexErrors>>

checkerVars ==
    <<scopes, currentFunctionName, currentFunctionReturnType, inFunctionBody>>

tableVars == <<nest, wellNested>>

TheParser == Parser(src, position, currentToken, lexErrors)

SetParser(p) ==
    /\ position' = p.pos
    /\ currentToken' = p.cur
    /\ lexErrors' = p.lexerr

\* catch (const std::exception& e) { std::cerr << "Error: " << e.what(); return 1; }
MainCatch(printed, msg) ==
    /\ stderr' = Append(printed, <<"Error", msg>>)
    /\ exitCode' = 1
    /\ pc' = "done"

\* Parser parser(lexer): the constructor pulls the first token; then main,
\* having constructed the type checker and the code generator, calls parse().
Constructed(a) ==
    /\ SetParser(a.p)
    /\ IF a.ok
       THEN /\ pc' = "parse"
            /\ ran' = Append(ran, "parse")
            /\ UNCHANGED <<stderr, exitCode>>
       ELSE /\ MainCatch(stderr, a.msg)
            /\ UNCHANGED ran

ParserConstruct ==
    /\ pc = "main"
    /\ Constructed(advance(TheParser))
    /\ UNCHANGED <<prog, src, aloneVars, ast, checkerVars, errors, idx, tableVars, codegenVars>>

\* catch (const std::runtime_error& e) { std::cerr << "Error: " << e.what();
\* synchronize(); }: an exception of synchronize() leaves parse().
ParseCaught(msg, s) ==
    /\ SetParser(s.p)
    /\ UNCHANGED ast
    /\ IF s.ok
       THEN /\ stderr' = Append(stderr, <<"Error", msg>>)
            /\ UNCHANGED <<pc, exitCode>>
       ELSE MainCatch(Append(stderr, <<"Error", msg>>), s.msg)

\* if (match(SEMICOLON)) continue; auto stmt = parseStatement();
\* if (stmt) statements.push_back(std::move(stmt));
Parsed(skip, r) ==
    IF r.ok
    THEN /\ SetParser(r.p)
         /\ ast' = IF skip THEN ast ELSE Append(ast, r.node)
         /\ UNCHANGED <<stderr, pc, exitCode>>
    ELSE ParseCaught(r.msg, synchronize(r.p))

\* One iteration of the loop of Parser::parse.
ParseStep ==
    /\ pc = "parse"
    /\ ~check(TheParser, "END_OF_FILE")
    /\ Parsed(check(TheParser, "SEMICOLON"),
              IF check(TheParser, "SEMICOLON") THEN advance(TheParser)
              ELSE parseStatement(TheParser))
    /\ UNCHANGED <<prog, src, aloneVars, ran, checkerVars, errors, idx, tableVars, codegenVars>>

\* parse() returns its statements; main calls typeChecker.check(ast).
ParseReturn ==
    /\ pc = "parse"
    /\ check(TheParser, "END_OF_FILE")
    /\ pc' = "pass1"
    /\ idx' = 1
    /\ errors' = <<>>
    /\ ran' = Append(ran, "check")
    /\ UNCHANGED <<prog, src, aloneVars, parserVars, ast, stderr, exitCode, checkerVars,
                   tableVars, codegenVars>>

\* symbolTable.define(funcSymbol), and the error pushed when it refuses.
Hoisted(name, d) ==
    /\ scopes' = d.scopes
    /\ errors' = IF d.ok THEN errors
                 ELSE Append(errors, <<"Function already defined", name>>)

\* One iteration of the first pass of TypeChecker::check.
CheckHoist ==
    /\ pc = "pass1"
    /\ idx <= Len(ast)
    /\ IF ast[idx].k = "FunctionDeclaration"
       THEN Hoisted(ast[idx].name,
                    define(scopes, FunctionSymbol(ast[idx].name,
                                                  ast[idx].returnType,
                                                  ast[idx].parameters)))
       ELSE UNCHANGED <<scopes, errors>>
    /\ idx' = idx + 1
    /\ UNCHANGED <<prog, src, aloneVars, parserVars, ast, stderr, ran, pc, exitCode,
                   currentFunctionName, currentFunctionReturnType, inFunctionBody,
                   tableVars, codegenVars>>

\* The first pass has seen every statement: the second one starts.
CheckPass1Done ==
    /\ pc = "pass1"
    /\ idx > Len(ast)
    /\ pc' = "pass2"
    /\ idx' = 1
    /\ UNCHANGED <<prog, src, aloneVars, parserVars, ast, stderr, ran, exitCode, checkerVars,
                   errors, tableVars, codegenVars>>

\* try { checkStatement(stmt.get()); } catch (const TypeError& e) {
\* errors.push_back(e.what()); }: the checker stays as the throw left it.
CheckedStatement(r) ==
    /\ scopes' = r.c.scopes
    /\ currentFunctionName' = r.c.name
    /\ currentFunctionReturnType' = r.c.returnType
    /\ inFunctionBody' = r.c.inBody
    /\ errors' = IF r.ok THEN errors ELSE Append(errors, r.msg)

TheChecker ==
    Checker(scopes, currentFunctionName, currentFunctionReturnType, inFunctionBody)

\* One iteration of the second pass of TypeChecker::check.
CheckStatementStep ==
    /\ pc = "pass2"
    /\ idx <= Len(ast)
    /\ CheckedStatement(checkStatement(ast[idx], TheChecker))
    /\ idx' = idx + 1
    /\ UNCHANGED <<prog, src, aloneVars, parserVars, ast, stderr, ran, pc, exitCode,
                   tableVars, codegenVars>>

\* The end of check(): the aggregate TypeError, which main catches, or the return.
CheckReport ==
    /\ pc = "pass2"
    /\ idx > Len(ast)
    /\ IF errors # <<>>
       THEN /\ stderr' = stderr \o <<<<"Type error", "Found semantic errors">>,
                                     <<"Compilation stopped due to semantic errors.", "">>>>
            /\ exitCode' = 1
            /\ pc' = "done"
       ELSE /\ pc' = "generate"
            /\ UNCHANGED <<stderr, exitCode>>
    /\ UNCHANGED <<prog, src, aloneVars, parserVars, ast, ran, checkerVars, errors, idx,
                   tableVars, codegenVars>>

\* The generator main constructed, as it is now.
TheGenerator == CodeGenerator(instructions, tempVarCounter, labelCounter, <<>>)

\* What a call on the generator leaves, its warnings on std::cerr.
Generated(g) ==
    /\ instructions' = g.instructions
    /\ tempVarCounter' = g.tempVarCounter
    /\ labelCounter' = g.labelCounter
    /\ stderr' = stderr \o g.cerr

\* codeGen.generate(ast)
Generate ==
    /\ pc = "generate"
    /\ Generated(generate(TheGenerator, ast))
    /\ ran' = Append(ran, "generate")
    /\ pc' = "optimize"
    /\ UNCHANGED <<prog, src, aloneVars, parserVars, ast, exitCode, checkerVars,
                   errors, idx, tableVars>>

\* codeGen.optimize()
Optimize ==
    /\ pc = "optimize"
    /\ instructions' = optimize(instructions)
    /\ ran' = Append(ran, "optimize")
    /\ pc' = "dumpCode"
    /\ UNCHANGED <<prog, src, aloneVars, parserVars, ast, stderr, exitCode, checkerVars,
                   errors, idx, tableVars, tempVarCounter, labelCounter>>

\* codeGen.dumpCode(); return 0;
DumpCode ==
    /\ pc = "dumpCode"
    /\ ran' = Append(ran, "dumpCode")
    /\ exitCode' = 0
    /\ pc' = "done"
    /\ UNCHANGED <<prog, src, aloneVars, parserVars, ast, stderr, checkerVars, errors, idx,
                   tableVars, codegenVars>>

Next ==
    \/ ParserConstruct
    \/ ParseStep
    \/ ParseReturn
    \/ CheckHoist
    \/ CheckPass1Done
    \/ CheckStatementStep
    \/ CheckReport
    \/ Generate
    \/ Optimize
    \/ DumpCode

Spec == Init /\ [][Next]_vars

(***************************************************************************)
(* The symbol table on its own (src/symboltable.cpp): a client that makes  *)
(* any sequence of calls.  ran holds the last call made; nest counts the   *)
(* scopes entered and not yet left, and wellNested says that no exitScope  *)
(* has been called without an enterScope to match it.                      *)
(***************************************************************************)
Names == {"a", "b"}

Types == {"INT", "FLOAT"}

\* How many define calls the live scopes have seen.
RECURSIVE definesMade(_)
definesMade(calls) ==
    IF calls = <<>> THEN 0 ELSE Len(Head(calls)) + definesMade(Tail(calls))

InitST ==
    /\ prog = <<>>
    /\ src = <<>>
    /\ position = 1
    /\ currentToken = DefaultToken
    /\ ast = <<>>
    /\ stderr = <<>>
    /\ ran = <<>>
    /\ lexErrors = 0
    /\ pc = "table"
    /\ exitCode = -1
    /\ scopes = enterScope(<<>>)
    /\ currentFunctionName = ""
    /\ currentFunctionReturnType = "VOID"
    /\ inFunctionBody = FALSE
    /\ errors = <<>>
    /\ idx = 0
    /\ nest = 0
    /\ wellNested = TRUE
    /\ defines = <<<<>>>>
    /\ LexerIdle
    /\ SampleIdle
    /\ instructions = <<>>
    /\ tempVarCounter = 0
    /\ labelCounter = 0
    /\ listing = <<>>

pipelineVars ==
    <<prog, src, lexerVars, sampleVars, listing, parserVars, ast, stderr, pc,
      exitCode, currentFunctionName, currentFunctionReturnType, inFunctionBody,
      errors, idx, codegenVars>>

STEnterScope ==
    /\ pc = "table"
    /\ Len(scopes) < MaxDepth
    /\ scopes' = enterScope(scopes)
    /\ defines' = Append(defines, <<>>)
    /\ ran' = <<"enterScope">>
    /\ nest' = IF wellNested THEN nest + 1 ELSE nest
    /\ UNCHANGED <<pipelineVars, wellNested>>

STExitScope ==
    /\ pc = "table"
    /\ scopes' = exitScope(scopes)
    /\ defines' = IF Len(defines) > 1 THEN SubSeq(defines, 1, Len(defines) - 1)
                  ELSE defines
    /\ ran' = <<"exitScope">>
    /\ wellNested' = (wellNested /\ nest > 0)
    /\ nest' = IF wellNested /\ nest > 0 THEN nest - 1 ELSE nest
    /\ UNCHANGED pipelineVars

\* bool ok = symbolTable.define(symbol);
Defined(symbol, d) ==
    /\ scopes' = d.scopes
    /\ defines' = [defines EXCEPT ![Len(defines)] = Append(@, symbol)]
    /\ ran' = <<"define", IF d.ok THEN "true" ELSE "false">>

STDefine(name, type) ==
    /\ pc = "table"
    /\ definesMade(defines) < MaxDefines
    /\ Defined(Symbol(name, type, FALSE, "VARIABLE"),
               define(scopes, Symbol(name, type, FALSE, "VARIABLE")))
    /\ UNCHANGED <<pipelineVars, tableVars>>

NextST ==
    \/ STEnterScope
    \/ STExitScope
    \/ \E name \in Names, type \in Types : STDefine(name, type)

SpecST == InitST /\ [][NextST]_vars

(***************************************************************************)
(* The lexer on its own (src/lexer.cpp): a client that constructs it on a  *)
(* source of at most MaxInput characters and calls getNextToken again and  *)
(* again, and the                                                          *)
(* string-literal branch of Parser::parsePrimary on the token it got.      *)
(***************************************************************************)
Chars == {"a", "1", " ", "\n", "/", "*", "\"", "\\", "'", "@", "#"}

TheLexer == Lexer(input, lexer.position, lexer.line)

InitLex ==
    /\ prog = <<>>
    /\ src = <<>>
    /\ position = 1
    /\ currentToken = DefaultToken
    /\ ast = <<>>
    /\ stderr = <<>>
    /\ ran = <<>>
    /\ lexErrors = 0
    /\ pc = "source"
    /\ exitCode = -1
    /\ scopes = enterScope(<<>>)
    /\ currentFunctionName = ""
    /\ currentFunctionReturnType = "VOID"
    /\ inFunctionBody = FALSE
    /\ errors = <<>>
    /\ idx = 0
    /\ nest = 0
    /\ wellNested = TRUE
    /\ defines = <<<<>>>>
    /\ input = <<>>
    /\ lexer = [position |-> 0, line |-> 1]
    /\ token = NoToken
    /\ literal = Nil
    /\ SampleIdle
    /\ instructions = <<>>
    /\ tempVarCounter = 0
    /\ labelCounter = 0
    /\ listing = <<>>

notLexerVars ==
    <<prog, src, parserVars, ast, stderr, ran, exitCode, checkerVars, errors,
      idx, tableVars, defines, sampleVars, codegenVars, listing>>

\* The source grows by one character: the file main reads is any text.
SourceChar(c) ==
    /\ pc = "source"
    /\ Len(input) < MaxInput
    /\ input' = Append(input, c)
    /\ UNCHANGED <<pc, lexer, token, literal, notLexerVars>>

\* Lexer lexer(source): position(0), line(1).
LexerConstruct ==
    /\ pc = "source"
    /\ lexer' = [position |-> 0, line |-> 1]
    /\ pc' = "lexer"
    /\ UNCHANGED <<input, token, literal, notLexerVars>>

\* Token t = lexer.getNextToken(), or the exception it left by.
GotToken(r) ==
    /\ lexer' = [position |-> r.l.position, line |-> r.l.line]
    /\ token' = [ok |-> r.ok, tok |-> r.tok, msg |-> r.msg]

LexGetNextToken ==
    /\ pc = "lexer"
    /\ GotToken(LexerGetNextToken(TheLexer))
    /\ literal' = Nil
    /\ UNCHANGED <<input, pc, notLexerVars>>

\* if (check(STRING_LITERAL)) { value = ...; advance(); return Literal(value); }
ParseStringLiteral ==
    /\ pc = "lexer"
    /\ token.ok
    /\ token.tok.type = "STRING_LITERAL"
    /\ literal' = LiteralExpression(stringLiteralValue(token.tok.lexeme),
                                    "STRING_LITERAL")
    /\ GotToken(LexerGetNextToken(TheLexer))
    /\ UNCHANGED <<input, pc, notLexerVars>>

NextLex ==
    \/ \E c \in Chars : SourceChar(c)
    \/ LexerConstruct
    \/ LexGetNextToken
    \/ ParseStringLiteral

SpecLex == InitLex /\ [][NextLex]_vars

(***************************************************************************)
(* The parser on one assignment (src/parser.cpp): a value e of at most     *)
(* MaxExpr tokens is written, and once e is an expression that the parser  *)
(* accepts on its own, the statements `x op= e;` and `x = x op' (e);` are  *)
(* parsed, each by a parser of its own.                                    *)
(***************************************************************************)
ExprTokens ==
    {id("y"), num("1"), PLUS, STAR, EQ, INC, Tok("LESS", "<"), Tok("OR", "||")}

CompoundOps ==
    { <<Tok("PLUS_EQUAL", "+="), PLUS>>,
      <<Tok("MINUS_EQUAL", "-="), Tok("MINUS", "-")>>,
      <<Tok("MULTIPLY_EQUAL", "*="), STAR>>,
      <<Tok("DIVIDE_EQUAL", "/="), Tok("SLASH", "/")>> }

Targets == {"x", "y"}

InitAssign ==
    /\ prog = <<>>
    /\ src = <<>>
    /\ position = 1
    /\ currentToken = DefaultToken
    /\ ast = <<>>
    /\ stderr = <<>>
    /\ ran = <<>>
    /\ lexErrors = 0
    /\ pc = "sample"
    /\ exitCode = -1
    /\ scopes = enterScope(<<>>)
    /\ currentFunctionName = ""
    /\ currentFunctionReturnType = "VOID"
    /\ inFunctionBody = FALSE
    /\ errors = <<>>
    /\ idx = 0
    /\ nest = 0
    /\ wellNested = TRUE
    /\ defines = <<<<>>>>
    /\ LexerIdle
    /\ sample = [name |-> "", op |-> "", value |-> <<>>]
    /\ parsed = <<>>
    /\ instructions = <<>>
    /\ tempVarCounter = 0
    /\ labelCounter = 0
    /\ listing = <<>>

notSampleVars ==
    <<prog, src, parserVars, ast, stderr, ran, exitCode, checkerVars, errors,
      idx, tableVars, defines, lexerVars, codegenVars, listing>>

\* The value grows by one token.
SampleToken(t) ==
    /\ pc = "sample"
    /\ Len(sample.value) < MaxExpr
    /\ sample' = [sample EXCEPT !.value = Append(@, t)]
    /\ UNCHANGED <<pc, parsed, notSampleVars>>

\* Parser parser(lexer) on the tokens, then the call of one parse method.
parseStatementOf(tokens) ==
    after(advance(Parser(tokens, 1, DefaultToken, 0)), LAMBDA p : parseStatement(p))

parseExpressionOf(tokens) ==
    after(advance(Parser(tokens, 1, DefaultToken, 0)), LAMBDA p : parseExpression(p))

\* The parser took the tokens for one expression, to the last of them.
accepted(r) == r.ok /\ check(r.p, "END_OF_FILE") /\ r.p.lexerr = 0

Outcome(r) == [ok |-> r.ok, node |-> r.node]

ParsedAs(alone, compound, plain) ==
    /\ accepted(alone)
    /\ parsed' = <<Outcome(alone), Outcome(compound), Outcome(plain)>>

\* `name op= e;` and `name = name op' (e);`
ParseSample(name, op) ==
    /\ pc = "sample"
    /\ ParsedAs(parseExpressionOf(sample.value),
                parseStatementOf(<<id(name), op[1]>> \o sample.value \o <<SEMI>>),
                parseStatementOf(<<id(name), EQ, id(name), op[2], LP>>
                                 \o sample.value \o <<RP, SEMI>>))
    /\ sample' = [sample EXCEPT !.name = name, !.op = op[1].type]
    /\ pc' = "parsed"
    /\ UNCHANGED notSampleVars

NextAssign ==
    \/ \E t \in ExprTokens : SampleToken(t)
    \/ \E name \in Targets, op \in CompoundOps : ParseSample(name, op)

SpecAssign == InitAssign /\ [][NextAssign]_vars

(***************************************************************************)
(* The peephole pass alone: an instruction list is put together, one       *)
(* instruction at a time, and optimize() runs on it.  The first argument   *)
(* of an instruction is its place in the list, which tells instructions of *)
(* one opcode apart; listing keeps the list optimize() was called on.      *)
(***************************************************************************)
OpCodes == {"LOAD", "STORE", "ADD"}

InitOpt ==
    /\ prog = <<>>
    /\ src = <<>>
    /\ position = 1
    /\ currentToken = DefaultToken
    /\ ast = <<>>
    /\ stderr = <<>>
    /\ ran = <<>>
    /\ lexErrors = 0
    /\ pc = "emit"
    /\ exitCode = -1
    /\ scopes = enterScope(<<>>)
    /\ currentFunctionName = ""
    /\ currentFunctionReturnType = "VOID"
    /\ inFunctionBody = FALSE
    /\ errors = <<>>
    /\ idx = 0
    /\ nest = 0
    /\ wellNested = TRUE
    /\ defines = <<<<>>>>
    /\ LexerIdle
    /\ SampleIdle
    /\ instructions = <<>>
    /\ tempVarCounter = 0
    /\ labelCounter = 0
    /\ listing = <<>>

notListVars ==
    <<prog, src, parserVars, ast, stderr, ran, exitCode, checkerVars, errors,
      idx, tableVars, defines, lexerVars, sampleVars, tempVarCounter,
      labelCounter>>

\* instructions.emplace_back(opcode, ...)
EmitInstruction(opcode) ==
    /\ pc = "emit"
    /\ Len(instructions) < MaxInstr
    /\ instructions' =
           Append(instructions,
                  Instruction(opcode, ToString(Len(instructions) + 1), "", ""))
    /\ UNCHANGED <<pc, listing, notListVars>>

\* codeGen.optimize()
OptimizeList ==
    /\ pc = "emit"
    /\ listing' = instructions
    /\ instructions' = optimize(instructions)
    /\ pc' = "optimized"
    /\ UNCHANGED notListVars

NextOpt ==
    \/ \E opcode \in OpCodes : EmitInstruction(opcode)
    \/ OptimizeList

SpecOpt == InitOpt /\ [][NextOpt]_vars

(***************************************************************************)
(* A component alone, before anything has been given to it: the state     *)
(* main's constructions leave, at the stage `start`.                       *)
(***************************************************************************)
InitAlone(start) ==
    /\ prog = <<>>
    /\ src = <<>>
    /\ position = 1
    /\ currentToken = DefaultToken
    /\ ast = <<>>
    /\ stderr = <<>>
    /\ ran = <<>>
    /\ lexErrors = 0
    /\ pc = start
    /\ exitCode = -1
    /\ scopes = enterScope(<<>>)
    /\ currentFunctionName = ""
    /\ currentFunctionReturnType = "VOID"
    /\ inFunctionBody = FALSE
    /\ errors = <<>>
    /\ idx = 0
    /\ nest = 0
    /\ wellNested = TRUE
    /\ defines = <<<<>>>>
    /\ LexerIdle
    /\ SampleIdle
    /\ instructions = <<>>
    /\ tempVarCounter = 0
    /\ labelCounter = 0
    /\ listing = <<>>

(***************************************************************************)
(* The parser alone, on any stream of tokens: the stream is put together,  *)
(* the parser is constructed on it and parse() runs, iteration by          *)
(* iteration; at the head of any iteration one of the parser's methods or  *)
(* loops may be run instead, from the token parse() has reached.           *)
(***************************************************************************)
StreamTokens == {id("x"), SEMI, LB, RB, INT, LP, RP, COMMA}

parens(tokens) == Cardinality({i \in 1..Len(tokens) : tokens[i].type = "LPAREN"})

notParserVars ==
    <<prog, aloneVars, ast, stderr, ran, exitCode, checkerVars, errors, idx,
      tableVars, codegenVars>>

\* The source grows by one token.
StreamToken(t) ==
    /\ pc = "main"
    /\ Len(src) < MaxTokens
    /\ parens(Append(src, t)) <= MaxParens
    /\ src' = Append(src, t)
    /\ UNCHANGED <<pc, parserVars, notParserVars>>

\* What a method left, and where it was left: by a return or by an exception.
Left(r, returned) ==
    /\ SetParser(r.p)
    /\ pc' = IF r.ok THEN returned ELSE "thrown"
    /\ UNCHANGED <<src, notParserVars>>

\* advance()
ParserAdvance ==
    /\ pc = "parse"
    /\ ~check(TheParser, "END_OF_FILE")
    /\ Left(advance(TheParser), "parse")

\* synchronize()
Synchronize ==
    /\ pc = "parse"
    /\ Left(synchronize(TheParser), "synchronize")

\* One iteration of the loop of parseBlock.
BlockIteration ==
    /\ pc = "parse"
    /\ ~check(TheParser, "RBRACE")
    /\ ~check(TheParser, "END_OF_FILE")
    /\ Left(parseStatement(TheParser), "parseBlock")

\* One iteration of the do-while over the arguments of a call.
ArgumentIteration ==
    /\ pc = "parse"
    /\ ~check(TheParser, "RPAREN")
    /\ Left(catchSkipArgument(parseArgument(TheParser, <<>>), <<>>), "arguments")

NextTokens ==
    \/ \E t \in StreamTokens : StreamToken(t)
    \/ ParserConstruct
    \/ ParseStep
    \/ ParseReturn
    \/ ParserAdvance
    \/ Synchronize
    \/ BlockIteration
    \/ ArgumentIteration

InitTokens == InitAlone("main")

SpecTokens == InitTokens /\ [][NextTokens]_vars

(***************************************************************************)
(* The properties.                                                         *)
(***************************************************************************)
Finished == pc = "done"

\* A diagnostic: a line on std::cerr that is not a warning of the code generator.
DiagnosticProduced == \E i \in 1..Len(stderr) : stderr[i][1] # "Warning"

\* A diagnostic of parse() that is not the message of a lexer exception.
SyntaxErrorReported ==
    \E i \in 1..Len(stderr) :
        stderr[i][1] = "Error" /\ stderr[i][2] \notin LexicalMessages

LaterPhases == {"check", "generate", "optimize", "dumpCode"}

\* C1: when the driver has finished, its exit status is 1 if and only if a
\* diagnostic (lexical, syntactic or semantic) was produced, and 0 otherwise.
ExitStatusTellsDiagnostics ==
    Finished => /\ exitCode = 1 <=> DiagnosticProduced
                /\ exitCode = 0 <=> ~DiagnosticProduced

\* C2: once parse() has reported a syntactic error, no later phase runs: the type
\* checker, generate(), optimize() and dumpCode() are never invoked.
NoPhaseAfterSyntaxError ==
    SyntaxErrorReported => Range(ran) \cap LaterPhases = {}

\* C3: once the lexer has raised a lexical error the compilation is aborted: the
\* parser does not return its statements to the driver, type checking and emission
\* never run, and the driver, when it has finished, has exit status 1.
LexicalErrorAborts ==
    lexErrors > 0 => /\ Range(ran) \cap LaterPhases = {}
                     /\ pc \in {"parse", "done"}
                     /\ Finished => exitCode = 1

\* A piece on its own, as the parser reads it from its first token.
Alone(piece) == parseStatement(advance(Parser(piece, 1, DefaultToken, 0)).p)

Lexical(piece) ==
    \E i \in 1..Len(piece) : piece[i].type \in {"BADCHAR", "UNTERMINATED"}

\* A well-formed top-level statement: parseStatement returns it and has read it all.
WellFormed(piece) ==
    /\ ~Lexical(piece)
    /\ Alone(piece).ok
    /\ check(Alone(piece).p, "END_OF_FILE")

\* A top-level statement with a syntactic error.
Malformed(piece) == ~Lexical(piece) /\ ~Alone(piece).ok

ParseReturned == pc \notin {"main", "parse"} /\ "check" \in Range(ran)

\* C4: after a syntactic error in one top-level statement parse() resumes with the
\* next statement: every well-formed top-level statement that follows the
\* malformed one is in the AST parse() returns.
RecoveryKeepsFollowingStatements ==
    ParseReturned =>
        \A i \in 1..Len(prog) : \A j \in (i + 1)..Len(prog) :
            ( /\ \A k \in 1..Len(prog) : ~Lexical(prog[k])
              /\ Malformed(prog[i])
              /\ WellFormed(prog[j]) )
            => Alone(prog[j]).node \in Range(ast)

\* C5: check() checks each top-level statement at scope depth 1: after it has
\* finished with any top-level statement, cleanly or with a recorded error, the
\* symbol table holds the global scope alone.
TopLevelAtDepthOne == pc = "pass2" => Len(scopes) = 1

\* The variable a For statement declares in its initializer, or "".
forVariable(stmt) ==
    IF stmt.k = "For" /\ stmt.initializer.k = "VariableDeclaration"
    THEN stmt.initializer.name
    ELSE ""

\* The names the top-level statements before the k-th declare.
globalsBefore(k) ==
    {ast[m].name : m \in {n \in 1..(k - 1) :
                            ast[n].k \in {"VariableDeclaration",
                                          "FunctionDeclaration"}}}

\* C6: a variable declared in the initializer of a for loop is not visible after
\* the loop: a reference to it in the statement that follows the loop, checked or
\* not with a semantic error inside the loop, is reported as undefined.
ForVariableUndefinedAfterLoop ==
    \A k \in 2..Len(ast) :
        ( /\ pc = "pass2"
          /\ idx = k + 1
          /\ forVariable(ast[k - 1]) # ""
          /\ forVariable(ast[k - 1]) \notin globalsBefore(k)
          /\ ast[k] = ExpressionStatement(
                          IdentifierExpression(forVariable(ast[k - 1]))) )
        => /\ errors # <<>>
           /\ errors[Len(errors)] = <<"Undefined variable", forVariable(ast[k - 1])>>

FunctionContext ==
    <<currentFunctionName, currentFunctionReturnType, inFunctionBody>>

CheckingTopLevel(kind) ==
    pc = "pass2" /\ idx <= Len(ast) /\ ast[idx].k = kind

\* C7: a Return statement outside every function declaration is reported as
\* 'Return statement outside of function body' whatever was checked before it;
\* that is, leaving a function declaration, normally or through an error in its
\* body, restores the function context to its value before the function.
ReturnOutsideFunctionReported ==
    [][ /\ CheckingTopLevel("Return")
            => errors' = Append(errors,
                                <<"Return statement outside of function body", "">>)
        /\ CheckingTopLevel("FunctionDeclaration")
            => FunctionContext' = FunctionContext ]_vars

RECURSIVE identifiers(_), identifiersOf(_, _), declared(_), declaredBy(_, _),
          callees(_), calleesOf(_, _)

\* The children of a node: its statements and expressions, in one sequence.
children(node) ==
    CASE node.k = "Unary" -> <<node.operand>>
      [] node.k \in {"Binary", "Logical"} -> <<node.left, node.right>>
      [] node.k = "Assign" -> <<node.value>>
      [] node.k = "Call" -> node.arguments
      [] node.k = "ExpressionStatement" -> <<node.expression>>
      [] node.k = "Block" -> node.statements
      [] node.k = "If" -> <<node.condition, node.thenBranch, node.elseBranch>>
      [] node.k = "While" -> <<node.condition, node.body>>
      [] node.k = "For" ->
            <<node.initializer, node.condition, node.increment, node.body>>
      [] node.k = "Return" -> <<node.value>>
      [] node.k = "VariableDeclaration" -> <<node.initializer>>
      [] node.k = "FunctionDeclaration" -> <<node.body>>
      [] OTHER -> <<>>

\* The names the identifier expressions of a tree refer to.
identifiersOf(nodes, i) ==
    IF i > Len(nodes) THEN {}
    ELSE identifiers(nodes[i]) \cup identifiersOf(nodes, i + 1)

identifiers(node) ==
    (IF node.k = "Identifier" THEN {node.name} ELSE {})
        \cup identifiersOf(children(node), 1)

\* The names a tree declares: its variables, functions and parameters.
declaredBy(nodes, i) ==
    IF i > Len(nodes) THEN {}
    ELSE declared(nodes[i]) \cup declaredBy(nodes, i + 1)

declared(node) ==
    (IF node.k = "VariableDeclaration" THEN {node.name}
     ELSE IF node.k = "FunctionDeclaration"
     THEN {node.name} \cup {node.parameters[i][1] : i \in 1..Len(node.parameters)}
     ELSE {}) \cup declaredBy(children(node), 1)

\* The names a tree calls.
calleesOf(nodes, i) ==
    IF i > Len(nodes) THEN {}
    ELSE callees(nodes[i]) \cup calleesOf(nodes, i + 1)

callees(node) ==
    (IF node.k = "Call" THEN {node.callee} ELSE {})
        \cup calleesOf(children(node), 1)

CheckFinished == pc = "pass2" /\ idx > Len(ast)

\* C8: the aggregate raised at the end of check() lists every semantic error of
\* the program, two or more inside one top-level statement included: here, a
\* reference to each name that the program declares nowhere.
EveryUndefinedReferenceListed ==
    CheckFinished =>
        \A name \in identifiersOf(ast, 1) \ declaredBy(ast, 1) :
            <<"Undefined variable", name>> \in Range(errors)

topLevelFunctions ==
    {ast[k].name : k \in {n \in 1..Len(ast) : ast[n].k = "FunctionDeclaration"}}

\* The first top-level declaration of the function called name.
firstDeclaration(name) ==
    ast[CHOOSE k \in 1..Len(ast) :
            /\ ast[k].k = "FunctionDeclaration"
            /\ ast[k].name = name
            /\ \A m \in 1..(k - 1) :
                   ~(ast[m].k = "FunctionDeclaration" /\ ast[m].name = name)]

\* The top-level function declarations that repeat an earlier one's name.
duplicates ==
    {k \in 1..Len(ast) :
        /\ ast[k].k = "FunctionDeclaration"
        /\ \E m \in 1..(k - 1) :
               ast[m].k = "FunctionDeclaration" /\ ast[m].name = ast[k].name}

\* The first pass leaves every top-level function hoisted under its first
\* declaration's signature, with one error for each repeated name.
HoistingDone ==
    (pc = "pass2" /\ idx = 1) =>
        /\ \A name \in topLevelFunctions :
               resolve(scopes, name) =
                   FunctionSymbol(name, firstDeclaration(name).returnType,
                                  firstDeclaration(name).parameters)
        /\ Len(errors) = Cardinality(duplicates)
        /\ \A i \in 1..Len(errors) : errors[i][1] = "Function already defined"

\* While a top-level function is checked, no call in it to a top-level function
\* that it does not itself redeclare fails to resolve to a function.
CallsResolve ==
    CheckingTopLevel("FunctionDeclaration") =>
        \A name \in (callees(ast[idx]) \cap topLevelFunctions)
                        \ declared(ast[idx].body) :
            /\ errors' # Append(errors, <<"is not a function", name>>)
            /\ errors' # Append(errors, <<"Undefined function", name>>)

\* C9: forward calls work through the hoisting of the first pass: a call to a
\* top-level function resolves to that function whether it is declared before or
\* after the caller; of two top-level functions of one name the first pass
\* records one 'already defined' error, keeps the first signature, and still
\* hoists every other function before the second pass starts.
ForwardCallsResolve == []HoistingDone /\ [][CallsResolve]_vars

Balanced == wellNested /\ nest = 0

\* C10: after construction and any sequence of enterScope / exitScope calls at
\* least one scope is live; exitScope with the global scope alone live changes
\* nothing, the global scope's bindings included; and after every balanced
\* sequence exactly one scope is live.
StackDiscipline ==
    /\ Len(scopes) >= 1
    /\ Len(scopes) = 1 => exitScope(scopes) = scopes
    /\ Balanced => Len(scopes) = 1

\* An exitScope without a matching enterScope was the last call, and the global
\* scope, alone live, still holds the bindings made before it.
GlobalScopeSurvivedExit ==
    /\ pc = "table"
    /\ ran = <<"exitScope">>
    /\ ~wellNested
    /\ Len(scopes) = 1
    /\ DOMAIN scopes[1] = Names

\* The live scopes, by position, in which a define of the name was called.
holders(name) ==
    {i \in 1..Len(defines) : \E j \in 1..Len(defines[i]) : defines[i][j].name = name}

\* The symbol of the first define of the name that one scope has seen.
firstDefine(calls, name) ==
    calls[CHOOSE j \in 1..Len(calls) :
              /\ calls[j].name = name
              /\ \A h \in 1..(j - 1) : calls[h].name # name]

innermost(levels) == CHOOSE i \in levels : \A h \in levels : h <= i

\* C11: after any sequence of enterScope / exitScope / define calls, resolve(name)
\* returns the symbol of the first define(name) made in the innermost live scope
\* in which the name was defined (an inner binding hides an outer one, a refused
\* define changes nothing), returns nothing iff no live scope holds the name
\* (so a binding is gone once its scope is exited), and resolveLocal looks at
\* the innermost scope alone.
ResolveContract ==
    pc = "table" =>
        /\ Len(scopes) = Len(defines)
        /\ \A name \in Names :
              /\ resolve(scopes, name) =
                     IF holders(name) = {} THEN NoSymbol
                     ELSE firstDefine(defines[innermost(holders(name))], name)
              /\ isNull(resolve(scopes, name)) <=> holders(name) = {}
              /\ resolveLocal(scopes, name) =
                     IF Len(defines) \in holders(name)
                     THEN firstDefine(defines[Len(defines)], name)
                     ELSE NoSymbol

\* The last call was a refused define of a name that the innermost scope binds
\* to one type and the global scope to another.
RefusedDefineUnderShadow ==
    /\ pc = "table"
    /\ ran = <<"define", "false">>
    /\ Len(scopes) = 2
    /\ holders("a") = {1, 2}
    /\ resolve(scopes, "a").type = "FLOAT"
    /\ resolveFrom(scopes, "a", 1).type = "INT"
    /\ defines[2][Len(defines[2])] = Symbol("a", "INT", FALSE, "VARIABLE")

EndOfFile(t) == t.ok /\ t.tok.type = "END_OF_FILE"

\* A call that does not return END_OF_FILE moves the cursor on by one
\* character at least.
CallAdvances == ~EndOfFile(token') => lexer'.position > lexer.position

\* Once END_OF_FILE is returned, END_OF_FILE is returned again.
EndOfFileStays == EndOfFile(token) => EndOfFile(token')

\* The lines of the tokens returned never decrease.
LinesNeverDecrease == token'.tok.line >= token.tok.line

\* With the cursor at or behind the end of the source the call returns
\* END_OF_FILE, and the cursor never passes the end by more than one.
EndOfFileAtEnd == lexer.position >= Len(input) => EndOfFile(token')

CursorBounded == lexer.position <= Len(input) + 1

\* C12: for every input, repeated calls of getNextToken (those that throw
\* counted) reach END_OF_FILE after finitely many calls, because each call that
\* does not return END_OF_FILE advances the cursor by one character at least
\* and the cursor is bounded by the length of the source, at which the call
\* returns END_OF_FILE; every later call returns END_OF_FILE again; and the line
\* numbers of the tokens returned never decrease.
LexerTotality ==
    /\ [][pc = "lexer" => /\ CallAdvances
                          /\ EndOfFileAtEnd
                          /\ EndOfFileStays
                          /\ LinesNeverDecrease]_vars
    /\ []CursorBounded

\* END_OF_FILE was reached behind a lexical error, a token on the second line
\* and a string that ran past the end of the source.
EndOfFileBehindError ==
    /\ pc = "lexer"
    /\ EndOfFile(token)
    /\ token.tok.line = 2
    /\ input = <<"@", "\n", "\"", "\\">>
    /\ lexer.position = Len(input) + 1

\* The source opens a comment with "/*" that no "*/" closes.
UnterminatedComment ==
    /\ Len(input) >= 2
    /\ input[1] = "/"
    /\ input[2] = "*"
    /\ \A i \in 3..(Len(input) - 1) : ~(input[i] = "*" /\ input[i + 1] = "/")

\* C13: an unterminated multi-line comment runs to the end of the input
\* silently: no character behind the "/*" becomes a token, no error is raised,
\* and the next token returned is END_OF_FILE.
UnterminatedCommentSilent ==
    (pc = "lexer" /\ UnterminatedComment /\ token # NoToken) => EndOfFile(token)

\* C20: the Literal node that the parser builds for a string literal carries
\* exactly the decoded payload between the quotes, which is the lexeme that
\* Lexer::string decoded, whatever the length of the payload.
StringLiteralKeepsPayload ==
    [][pc = "lexer" /\ literal' # Nil => literal'.value = token.tok.lexeme]_vars

\* The arithmetic operator under a compound assignment operator.
underlying(op) ==
    CASE op = "PLUS_EQUAL" -> "PLUS"
      [] op = "MINUS_EQUAL" -> "MINUS"
      [] op = "MULTIPLY_EQUAL" -> "MULTIPLY"
      [] op = "DIVIDE_EQUAL" -> "SLASH"

\* C14: for every identifier x, every op in {+=, -=, *=, /=} and every
\* expression e of the accepted grammar, parsing `x op= e;` gives the AST that
\* parsing `x = x op' (e);` gives, which is
\* Assign(x, =, Binary(Identifier(x), op', e)), op' the arithmetic operator
\* under op.
CompoundAssignmentEquivalence ==
    pc = "parsed" =>
        /\ parsed[2].ok
        /\ parsed[3].ok
        /\ parsed[2].node = parsed[3].node
        /\ parsed[2].node =
               ExpressionStatement(
                   AssignExpression(sample.name, "EQUAL",
                       BinaryExpression(IdentifierExpression(sample.name),
                                        underlying(sample.op), parsed[1].node)))

\* `y *= y + 1;` and `y = y * (y + 1);` have been parsed.
CompoundProductOfSum ==
    /\ pc = "parsed"
    /\ sample = [name |-> "y", op |-> "MULTIPLY_EQUAL",
                 value |-> <<id("y"), PLUS, num("1")>>]
    /\ parsed[2].ok
    /\ parsed[1].node.k = "Binary"

\* The names generateTemp and generateLabel have returned.
Temporaries == {"t" \o ToString(k) : k \in 1..tempVarCounter}

GeneratedLabels == {"L" \o ToString(k) : k \in 1..labelCounter}

\* C15: across one emission no temporary t_k is the result of two different
\* instructions and no generated label L_k is placed by two LABEL instructions
\* (every call of generateTemp / generateLabel returning a new name).
EmitterFreshness ==
    pc = "optimize" =>
        \A i, j \in 1..Len(instructions) :
            i < j =>
                /\ ~ /\ instructions[i].result \in Temporaries
                     /\ instructions[i].result = instructions[j].result
                /\ ~ /\ instructions[i].opcode = "LABEL"
                     /\ instructions[j].opcode = "LABEL"
                     /\ instructions[i].arg1 \in GeneratedLabels
                     /\ instructions[i].arg1 = instructions[j].arg1

\* The program is one variable declaration with an initializer.
InitializedDeclaration ==
    /\ Len(ast) = 1
    /\ ast[1].k = "VariableDeclaration"
    /\ ast[1].initializer # Nil

\* The program is `T x = v;`, v a literal.
LiteralDeclaration ==
    InitializedDeclaration /\ ast[1].initializer.k = "Literal"

\* C16: for a declaration with an initializer, the STORE that writes the
\* variable takes as its source the result of the last instruction emitted for
\* the initializer; for `T x = v;` the list generate() leaves is STORE v -> t1
\* followed by STORE t1 -> x.
DeclarationStoresInitializer ==
    (pc = "optimize" /\ InitializedDeclaration) =>
        /\ Len(instructions) >= 2
        /\ instructions[Len(instructions)] =
               Instruction("STORE", instructions[Len(instructions) - 1].result,
                           "", ast[1].name)
        /\ LiteralDeclaration =>
               instructions =
                   <<Instruction("STORE", ast[1].initializer.value, "", "t1"),
                     Instruction("STORE", "t1", "", ast[1].name)>>

\* C17: for `T x = v;`, v a literal, the instruction list after generate()
\* followed by optimize() is exactly the single instruction STORE v -> x.
LiteralDeclarationIsOneStore ==
    (pc = "dumpCode" /\ LiteralDeclaration) =>
        instructions =
            <<Instruction("STORE", ast[1].initializer.value, "", ast[1].name)>>

\* Statements that compile, alone or one after the other, without a diagnostic.
ValidStatements == {<<INT, id("x"), SEMI>>, <<INT, id("y"), EQ, num("1"), SEMI>>}

\* `using namespace std;` followed by valid statements.
UsingThenValid ==
    /\ prog # <<>>
    /\ prog[1] = <<USING, NAMESPACE, STD, SEMI>>
    /\ \A k \in 2..Len(prog) : prog[k] \in ValidStatements

\* C19: a program made of `using namespace std;` followed by valid statements
\* passes the parser and the type checker without a diagnostic, and the rest of
\* the program is compiled: the driver finishes with status 0 after dumpCode().
UsingDirectiveInert ==
    (Finished /\ UsingThenValid) =>
        /\ ~DiagnosticProduced
        /\ errors = <<>>
        /\ exitCode = 0
        /\ "dumpCode" \in Range(ran)

\* The i-th instruction of the list is the LOAD or the STORE of an adjacent
\* (LOAD, STORE) pair of the list.
inPair(list, i) ==
    \/ /\ list[i].opcode = "LOAD"
       /\ i < Len(list)
       /\ list[i + 1].opcode = "STORE"
    \/ /\ list[i].opcode = "STORE"
       /\ i > 1
       /\ list[i - 1].opcode = "LOAD"

RECURSIVE outsidePairs(_, _)

\* The instructions of the list from the i-th on that are in no such pair.
outsidePairs(list, i) ==
    IF i > Len(list) THEN <<>>
    ELSE (IF inPair(list, i) THEN <<>> ELSE <<list[i]>>)
         \o outsidePairs(list, i + 1)

\* C18: optimize() returns its input with exactly the instructions of the
\* adjacent (LOAD, STORE) pairs of the input removed and all others kept in
\* their order; a list without such a pair is returned unchanged, and a pair
\* that becomes adjacent only through a deletion stays.
PeepholeRule ==
    pc = "optimized" =>
        /\ instructions = outsidePairs(listing, 1)
        /\ (\A i \in 1..Len(listing) : ~inPair(listing, i))
               => instructions = listing

\* LOAD LOAD STORE STORE has lost its inner pair and kept the outer one, now
\* adjacent.
PairLeftByDeletion ==
    /\ pc = "optimized"
    /\ [i \in 1..Len(listing) |-> listing[i].opcode]
           = <<"LOAD", "LOAD", "STORE", "STORE">>
    /\ instructions = <<listing[1], listing[4]>>

\* The tokens the parser has not consumed: the current one, unless it is
\* END_OF_FILE, and those the lexer has not produced.
remaining ==
    (Len(src) + 1 - position)
    + (IF currentToken.type = "END_OF_FILE" THEN 0 ELSE 1)

\* A call of synchronize() consumes a token unless the current one is END_OF_FILE.
SynchronizeProgress ==
    pc' = "synchronize" =>
        check(TheParser, "END_OF_FILE") \/ remaining' < remaining

\* An iteration of the loop of parse() consumes a token, and the loop ends at
\* END_OF_FILE with every token consumed.
ParseLoopProgress ==
    /\ pc' = "parse" => remaining' < remaining
    /\ pc' = "pass1" => remaining = 0

\* An iteration of the loop of parseBlock() that returns has consumed a token.
BlockLoopProgress == pc' = "parseBlock" => remaining' < remaining

\* An iteration of the argument loop has consumed a token or ends the loop.
ArgumentLoopProgress ==
    pc' = "arguments" =>
        \/ remaining' < remaining
        \/ currentToken'.type \in {"RPAREN", "END_OF_FILE"}

\* C21: every call of synchronize() consumes at least one token unless the
\* current token is END_OF_FILE, every iteration of the loops of parse(),
\* parseBlock() and of the argument loop consumes at least one token or ends the
\* loop, and so parse(), whose tokens left to consume decrease at every
\* iteration and are never fewer than none, returns on every token stream,
\* never left by an exception.
ParserTerminates ==
    /\ [][pc = "parse" => /\ SynchronizeProgress
                          /\ ParseLoopProgress
                          /\ BlockLoopProgress
                          /\ ArgumentLoopProgress]_vars
    /\ [](remaining >= 0 /\ pc # "done")

\* parse() has returned from a stream of four tokens with two syntax errors.
ReturnedAfterTwoErrors ==
    /\ pc = "pass1"
    /\ Len(src) = MaxTokens
    /\ Len(stderr) = 2

\* The positions in the stream of the tokens a step of the parser discards:
\* from the token that was current to the one before the token now current.
discarded ==
    LET first == IF currentToken.type = "END_OF_FILE"
                 THEN Len(src) + 1 ELSE position - 1
        last == IF currentToken'.type = "END_OF_FILE"
                THEN Len(src) ELSE position' - 2
    IN  first..last

\* C22: synchronize() stops at the first re-entry point: the tokens one call
\* discards contain no ';' and no '}' except possibly as the last of them, and
\* none of the keywords INT, FLOAT, CHAR, VOID, IF, WHILE, FOR, RETURN.
SynchronizeStopsAtFirstReentry ==
    [][pc = "parse" /\ pc' = "synchronize" =>
        \A i \in discarded :
            /\ src[i].type \in {"SEMICOLON", "RBRACE"} =>
                   \A j \in discarded : j <= i
            /\ src[i].type \notin SyncKeywords]_vars

(***************************************************************************)
(* The parser on a chain of stream operators (src/parser.cpp): an          *)
(* identifier is written, then at most MaxChain links, each a stream       *)
(* operator and its operand, and the chain is parsed by parsePrimary(),     *)
(* the method that takes an identifier and the chain that follows it.      *)
(***************************************************************************)
MaxChain == 2

StreamNames == {"cout", "x"}

StreamOps == {Tok("LEFT_SHIFT", "<<"), Tok("RIGHT_SHIFT", ">>")}

StreamOperands == {id("y"), num("1"), Tok("ENDL", "endl")}

InitStream == InitAlone("stream")

\* The number of stream operators of the chain.
links(chain) == (Len(chain) - 1) \div 2

StreamStart(name) ==
    /\ pc = "stream"
    /\ sample = <<>>
    /\ sample' = <<id(name)>>
    /\ UNCHANGED <<pc, parsed, notSampleVars>>

StreamLink(op, operand) ==
    /\ pc = "stream"
    /\ sample # <<>>
    /\ links(sample) < MaxChain
    /\ sample' = sample \o <<op, operand>>
    /\ UNCHANGED <<pc, parsed, notSampleVars>>

parsePrimaryOf(tokens) ==
    after(advance(Parser(tokens, 1, DefaultToken, 0)), LAMBDA p : parsePrimary(p))

ParseChain ==
    /\ pc = "stream"
    /\ sample # <<>>
    /\ parsed' = <<Outcome(parsePrimaryOf(sample))>>
    /\ pc' = "parsed"
    /\ UNCHANGED <<sample, notSampleVars>>

NextStream ==
    \/ \E name \in StreamNames : StreamStart(name)
    \/ \E op \in StreamOps, operand \in StreamOperands : StreamLink(op, operand)
    \/ ParseChain

SpecStream == InitStream /\ [][NextStream]_vars

\* The expression an operand of a chain is on its own.
operandOf(t) ==
    IF t.type = "IDENTIFIER" THEN IdentifierExpression(t.lexeme)
    ELSE IF t.type = "ENDL" THEN IdentifierExpression("endl")
    ELSE LiteralExpression(t.lexeme, t.type)

\* Binary(...Binary(Binary(a, op1, b), op2, c)..., opn, z) of the first n links.
RECURSIVE leftNested(_, _)
leftNested(chain, n) ==
    IF n = 0 THEN operandOf(chain[1])
    ELSE BinaryExpression(leftNested(chain, n - 1), chain[2 * n].type,
                          operandOf(chain[2 * n + 1]))

\* C23: stream chains are left-associative: an identifier followed by stream
\* operators with identifiers, literals or endl as operands is parsed to
\* Binary(Binary(a, <<, b), <<, c), no later stream operator nested inside the
\* right operand of an earlier one.
StreamChainLeftAssociative ==
    pc = "parsed" =>
        /\ parsed[1].ok
        /\ parsed[1].node = leftNested(sample, links(sample))

\* The instructions before the i-th that have the name as their result.
writers(name, i) == {j \in 1..(i - 1) : instructions[j].result = name}

\* C24: operands of emitted instructions are defined before use: a temporary
\* that is arg1 or arg2 of an ADD/SUB/MUL/DIV/CMP instruction, or the operand
\* of a PUSH, is the result of an earlier instruction of the list, the one
\* emitted for the operand.
OperandsDefinedBeforeUse ==
    pc = "optimize" =>
        \A i \in 1..Len(instructions) :
            instructions[i].opcode \in {"ADD", "SUB", "MUL", "DIV", "CMP", "PUSH"} =>
                \A operand \in {instructions[i].arg1, instructions[i].arg2} :
                    operand \in Temporaries => writers(operand, i) # {}

\* C26: the variables of a multi-variable declaration are visible to the
\* statements that follow it in the enclosing scope: `int i, j;` followed by
\* `i;` passes the type checker.
MultiDeclarationVisible ==
    (/\ pc \in {"generate", "optimize", "dumpCode", "done"}
     /\ prog = << <<INT, id("i"), COMMA, id("j"), SEMI>>, <<id("i"), SEMI>> >>)
        => errors = <<>>

\* The top-level statements `x = e;` of the program.
Assignments ==
    {k \in 1..Len(ast) : /\ ast[k].k = "ExpressionStatement"
                         /\ ast[k].expression.k = "Assign"}

\* The number of instructions generate() emits for the first k statements.
emitted(k) ==
    Len(generate(CodeGenerator(<<>>, 0, 0, <<>>), SubSeq(ast, 1, k)).instructions)

\* C28: no assignment is dropped by the emitter: for every statement `x = e;`
\* of a program that passed type checking, the instructions generate() emits
\* for the statement, which follow those of the statements before it, hold at
\* least one instruction whose result is x.
AssignmentEmitted ==
    pc = "optimize" =>
        \A k \in Assignments :
            \E i \in (emitted(k - 1) + 1)..emitted(k) :
                instructions[i].result = ast[k].expression.name

\* The LABEL instructions of the list that place the name.
placements(name) ==
    {j \in 1..Len(instructions) : /\ instructions[j].opcode = "LABEL"
                                  /\ instructions[j].arg1 = name}

\* C29: jump targets are well formed: the target of every JE and JMP is placed
\* by exactly one LABEL of the whole list, whatever the names of the program's
\* functions, after generate() and after optimize().
JumpTargetsPlacedOnce ==
    pc \in {"optimize", "dumpCode"} =>
        \A i \in 1..Len(instructions) :
            instructions[i].opcode \in {"JE", "JMP"} =>
                Cardinality(placements(instructions[i].arg1)) = 1

\* The top-level declarations `T y = e;` of the program.
InitializedDeclarations ==
    {k \in 1..Len(ast) : /\ ast[k].k = "VariableDeclaration"
                         /\ ast[k].initializer # Nil}

\* C30: optimize() deletes no write to a program variable: for every
\* declaration `T y = e;` the STORE whose result is y is in the list
\* optimize() leaves.
OptimizeKeepsVariableWrites ==
    pc = "dumpCode" =>
        \A k \in InitializedDeclarations :
            \E i \in 1..Len(instructions) :
                /\ instructions[i].opcode = "STORE"
                /\ instructions[i].result = ast[k].name

(***************************************************************************)
(* The type checker alone (src/typechecker.cpp): at most MaxDecls variable *)
(* declarations are checked one after the other, in the global scope, and  *)
(* at any time two type kinds, or the two operands of a comparison, are    *)
(* compared in both orders; parsed keeps the two answers.                  *)
(***************************************************************************)
MaxDecls == 2

TypeKinds ==
    {"INT", "FLOAT", "CHAR", "VOID", "BOOL", "INTEGER_LITERAL", "FLOAT_LITERAL",
     "BOOL_LITERAL", "CHAR_LITERAL", "STRING_LITERAL", "TRUE", "FALSE", "POINTER"}

AddressOf(name) == UnaryExpression("AMPERSAND", IdentifierExpression(name))

Initializers ==
    {Nil, LiteralExpression("0", "INTEGER_LITERAL"),
     LiteralExpression("1.5", "FLOAT_LITERAL"),
     LiteralExpression("true", "BOOL_LITERAL"),
     LiteralExpression("a", "CHAR_LITERAL"), AddressOf("x")}

Declarations ==
    {VariableDeclaration(type, isPointer, name, initializer) :
        type \in {"INT", "FLOAT", "BOOL", "CHAR"}, isPointer \in BOOLEAN,
        name \in {"x", "p"}, initializer \in Initializers}

Operands ==
    {IdentifierExpression("x"), IdentifierExpression("p"),
     LiteralExpression("0", "INTEGER_LITERAL"),
     LiteralExpression("a", "CHAR_LITERAL")}

InitTypes == InitAlone("types")

CheckDeclaration(decl) ==
    /\ pc = "types"
    /\ idx < MaxDecls
    /\ CheckedStatement(checkVariableDeclaration(decl, TheChecker))
    /\ idx' = idx + 1
    /\ UNCHANGED <<prog, src, aloneVars, parserVars, ast, stderr, ran, pc,
                   exitCode, tableVars, codegenVars>>

\* isCompatibleType(left, right) and isCompatibleType(right, left)
CompareKinds(left, right) ==
    /\ pc = "types"
    /\ sample' = <<left, right>>
    /\ parsed' = <<isCompatibleType(left, right), isCompatibleType(right, left)>>
    /\ UNCHANGED <<pc, notSampleVars>>

\* checkBinary on `left op right` and on `right op left`
CompareOperands(op, left, right) ==
    /\ pc = "types"
    /\ sample' = <<left, op, right>>
    /\ parsed' = <<checkBinary(BinaryExpression(left, op, right), scopes).ok,
                   checkBinary(BinaryExpression(right, op, left), scopes).ok>>
    /\ UNCHANGED <<pc, notSampleVars>>

NextTypes ==
    \/ \E decl \in Declarations : CheckDeclaration(decl)
    \/ \E left, right \in TypeKinds : CompareKinds(left, right)
    \/ \E left, right \in Operands :
           CompareOperands("EQUAL_EQUAL", left, right)

SpecTypes == InitTypes /\ [][NextTypes]_vars

\* C25: type compatibility is symmetric: isCompatibleType(a, b) =
\* isCompatibleType(b, a) for all type kinds a and b, POINTER and
\* INTEGER_LITERAL in both orders, and a comparison is accepted or rejected
\* whatever the order of its two operands.
CompatibilitySymmetric == parsed # <<>> => parsed[1] = parsed[2]

\* The kind of initializer that matches the declaration: the literal of the
\* declared type, or an address for a pointer.
natural(decl) ==
    /\ decl.initializer # Nil
    /\ IF decl.isPointer THEN decl.initializer.k = "Unary"
       ELSE /\ decl.initializer.k = "Literal"
            /\ decl.initializer.literalType =
                   CASE decl.type = "INT" -> "INTEGER_LITERAL"
                     [] decl.type = "FLOAT" -> "FLOAT_LITERAL"
                     [] decl.type = "BOOL" -> "BOOL_LITERAL"
                     [] decl.type = "CHAR" -> "CHAR_LITERAL"

\* C27: a declaration of a new variable whose initializer has the kind that
\* matches the declared type passes the type checker: INT with
\* INTEGER_LITERAL, FLOAT with FLOAT_LITERAL, BOOL with BOOL_LITERAL, CHAR with
\* CHAR_LITERAL, and a pointer with the address of a declared variable.
NaturalInitializerAccepted ==
    [][\A decl \in Declarations :
           (/\ natural(decl)
            /\ isNull(resolve(scopes, decl.name))
            /\ ~isNull(resolve(scopes, "x")) \/ ~decl.isPointer
            /\ CheckDeclaration(decl))
               => errors' = errors]_vars

====
